---- MODULE Spec2Model ----
(***************************************************************************)
(* VituBot status command: the classification of PRTG sensor status codes, *)
(* the three site evaluators (ProbeDeviceStatus, NetworkGroupStatus,       *)
(* CloverGroupStatus) and normalize_overall_site_status, modelled from     *)
(* src/src/commands/status.py and src/src/services/prtg.py.                *)
(*                                                                         *)
(* Python strings that the code searches with `in` or lower-cases are      *)
(* modelled as sequences of one-character strings, so that the substring   *)
(* tests and str.lower() are computed and not assumed.  Strings that are   *)
(* only stored and compared (the failover descriptions, the enum members)  *)
(* are TLA+ strings.                                                       *)
(***************************************************************************)
EXTENDS Integers, Sequences, FiniteSets, TLC

VARIABLES
    pc,                          \* position of the code being executed
    ping_sensor,                 \* the sensor whose status the if-chains classify
    probe_health_sensor,         \* argument of ProbeDeviceStatus.__init__
    primary_interface_sensor,    \* argument of ProbeDeviceStatus.__init__
    site_pi_lte_dongle_sensor,   \* argument of NetworkGroupStatus.__init__
    all_probe_ping_sensors,      \* argument of the two group constructors
    probe_device,                \* ProbeDeviceStatus instance
    network_devices,             \* NetworkGroupStatus instance
    clover_devices,              \* CloverGroupStatus instance
    raised,                      \* the exception that escaped the code, "None" if none
    arguments,                   \* the argument list a command's execute receives
    lookups,                     \* the lookups issued: name -> [state, result]
    gathered,                    \* what asyncio.gather delivers to the awaiting execute
    posted,                      \* the messages sent with slack.send_message, in order
    class_attrs,                 \* the class attributes of the two group classes
    requests                     \* the requests in flight: id -> its state

\* The state of a command's execution around the evaluators.
request_vars == <<class_attrs, requests>>
command_vars == <<arguments, lookups, gathered, posted, class_attrs, requests>>

vars == <<pc, ping_sensor, probe_health_sensor, primary_interface_sensor,
          site_pi_lte_dongle_sensor, all_probe_ping_sensors,
          probe_device, network_devices, clover_devices, raised,
          arguments, lookups, gathered, posted, class_attrs, requests>>

(***************************************************************************)
(* Bounds of the model.                                                    *)
(***************************************************************************)
MaxNetworkSensors == 8
MaxCloverSensors == 10
MaxListLen == 3
MaxRequests == 2

(***************************************************************************)
(* Python values.                                                          *)
(***************************************************************************)
\* Python None, as a record so that it compares with Sensor records.
None == [none |-> TRUE]

\* An instance attribute that has only a class-level annotation and has not
\* been assigned yet (reading it raises AttributeError).
UNSET == "UNSET"
UnsetName == <<"UNSET">>

\* prtg.STATUS_MAP keys
StatusCodes == 0..14

\* prtg.Sensor (the display string `status` is STATUS_MAP[status_int] and is
\* read only by the message formatter).
Sensor(device_name, device_group, status_int) ==
    [device_name |-> device_name, device_group |-> device_group, status_int |-> status_int]

\* OverallStatus enum members
OverallStatus == {"HEALTHY", "DEGRADED", "CRITICAL", "PAUSED", "UNKNOWN"}

(***************************************************************************)
(* str operations.                                                         *)
(***************************************************************************)
UpperCase == <<"A","B","C","D","E","F","G","H","I","J","K","L","M","N","O","P","Q","R","S","T","U","V","W","X","Y","Z">>
LowerCase == <<"a","b","c","d","e","f","g","h","i","j","k","l","m","n","o","p","q","r","s","t","u","v","w","x","y","z">>

\* str.lower() of one character
LowerChar(ch) ==
    IF \E i \in 1..Len(UpperCase) : UpperCase[i] = ch
    THEN LowerCase[CHOOSE i \in 1..Len(UpperCase) : UpperCase[i] = ch]
    ELSE ch

\* str.lower()
Lower(s) == [i \in 1..Len(s) |-> LowerChar(s[i])]

\* Python `needle in hay` for strings
In(needle, hay) ==
    \E i \in 0..(Len(hay) - Len(needle)) :
        \A j \in 1..Len(needle) : hay[i + j] = needle[j]

\* prtg.GroupType
NETWORK_DEVICES == <<"N","e","t","w","o","r","k"," ","D","e","v","i","c","e","s">>
CLOVER_DEVICES == <<"C","l","o","v","e","r"," ","D","e","v","i","c","e","s">>
\* literal of ProbeDeviceStatus.__init__
LTE_ONLY == <<"L","T","E"," ","O","n","l","y">>

(***************************************************************************)
(* ProbeDeviceStatus                                                       *)
(***************************************************************************)
\* Variant: Down Acknowledged (13) listed with the warning codes.
ProbeOverallStatus_Overlap(status_int) ==
    IF status_int = 3 THEN "HEALTHY"
    ELSE IF status_int \in {2, 4, 6, 10, 11, 13, 14} THEN "DEGRADED"
    ELSE IF status_int \in {7, 8, 9, 12} THEN "PAUSED"
    ELSE "CRITICAL"

\* The if-chain that sets the probe's overall status from the health code.
ProbeOverallStatus(status_int) ==
    IF status_int = 3 THEN "HEALTHY"
    ELSE IF status_int \in {2, 4, 6, 10, 11, 14} THEN "DEGRADED"
    ELSE IF status_int \in {7, 8, 9, 12} THEN "PAUSED"
    ELSE "CRITICAL"

\* Variant: the failed-over site keeps the status of its health sensor.
ProbeFailover_NoOverride(self) ==
    IF self.probe_health_sensor.status_int = 3
    THEN IF self.primary_interface_sensor.status_int = 3
         THEN [self EXCEPT !.primary_interface_description = "Site is on ISP connection"]
         ELSE IF self.is_lte_only
              THEN [self EXCEPT !.primary_interface_description = "Site is on LTE connection"]
              ELSE [self EXCEPT !.primary_interface_description = "Site has failed over to LTE connection"]
    ELSE [self EXCEPT !.primary_interface_description = "Site is down"]

\* Variant: the override is applied whenever the primary interface is not
\* up, whether the probe is up or not.
ProbeFailover_OverrideWhenDown(self) ==
    LET failed_over == self.primary_interface_sensor.status_int # 3 /\ ~self.is_lte_only
        status == IF failed_over THEN "DEGRADED" ELSE self.overall_status
    IN IF self.probe_health_sensor.status_int = 3
       THEN IF self.primary_interface_sensor.status_int = 3
            THEN [self EXCEPT !.primary_interface_description = "Site is on ISP connection"]
            ELSE IF self.is_lte_only
                 THEN [self EXCEPT !.primary_interface_description = "Site is on LTE connection"]
                 ELSE [self EXCEPT !.primary_interface_description = "Site has failed over to LTE connection",
                                   !.overall_status = "DEGRADED"]
       ELSE [self EXCEPT !.primary_interface_description = "Site is down",
                         !.overall_status = status]

\* The failover part of the constructor: description and the override of the
\* overall status.
ProbeFailover(self) ==
    IF self.probe_health_sensor.status_int = 3
    THEN IF self.primary_interface_sensor.status_int = 3
         THEN [self EXCEPT !.primary_interface_description = "Site is on ISP connection"]
         ELSE IF self.is_lte_only
              THEN [self EXCEPT !.primary_interface_description = "Site is on LTE connection"]
              ELSE [self EXCEPT !.primary_interface_description = "Site has failed over to LTE connection",
                                !.overall_status = "DEGRADED"]
    ELSE [self EXCEPT !.primary_interface_description = "Site is down"]

\* ProbeDeviceStatus.__init__
ProbeDeviceStatus(health_sensor, interface_sensor) ==
    ProbeFailover(
        [probe_health_sensor |-> health_sensor,
         primary_interface_sensor |-> interface_sensor,
         is_lte_only |-> In(LTE_ONLY, health_sensor.device_group),
         overall_status |-> ProbeOverallStatus(health_sensor.status_int),
         primary_interface_description |-> UNSET])

(***************************************************************************)
(* NetworkGroupStatus                                                      *)
(***************************************************************************)
\* The class-level defaults an instance starts from; `name` and
\* `overall_status` are annotations without a value.
NetworkGroupStatus_defaults ==
    [name |-> UnsetName, overall_status |-> UNSET,
     pi_lte_dongle |-> None, meraki_device |-> None, router |-> None, pdu |-> None,
     vitupay_com |-> None, pi_device |-> None, clover_com |-> None,
     up_devices |-> 0, warning_devices |-> 0, paused_devices |-> 0, down_devices |-> 0]

\* Variant: a dongle that is present is counted by its code like the sensors
\* of the sweep.
NetworkAddDongle_Classified(self, dongle_sensor) ==
    LET with_dongle == [self EXCEPT !.pi_lte_dongle = dongle_sensor]
    IN IF dongle_sensor = None THEN with_dongle
       ELSE IF dongle_sensor.status_int = 3 THEN [with_dongle EXCEPT !.up_devices = @ + 1]
       ELSE IF dongle_sensor.status_int \in {2, 4, 6, 10, 11, 14}
            THEN [with_dongle EXCEPT !.warning_devices = @ + 1]
       ELSE IF dongle_sensor.status_int \in {7, 8, 9, 12}
            THEN [with_dongle EXCEPT !.paused_devices = @ + 1]
       ELSE [with_dongle EXCEPT !.down_devices = @ + 1]

\* "Add the Pi LTE dongle to this group and check if it is online."
NetworkAddDongle(self, dongle_sensor) ==
    LET with_dongle == [self EXCEPT !.pi_lte_dongle = dongle_sensor]
    IN IF dongle_sensor # None /\ dongle_sensor.status_int = 3
       THEN [with_dongle EXCEPT !.up_devices = @ + 1]
       ELSE with_dongle

\* Variant: "pi" is tested before "vitupay".
NetworkRole_PiFirst(device_name_lower) ==
    IF In(<<"m","e","r","a","k","i">>, device_name_lower) THEN "meraki_device"
    ELSE IF In(<<"r","o","u","t","e","r">>, device_name_lower) THEN "router"
    ELSE IF In(<<"p","d","u">>, device_name_lower) THEN "pdu"
    ELSE IF In(<<"p","i">>, device_name_lower) THEN "pi_device"
    ELSE IF In(<<"v","i","t","u","p","a","y">>, device_name_lower) THEN "vitupay_com"
    ELSE IF In(<<"d",".","c","l","o","v","e","r",".","c","o","m">>, device_name_lower) THEN "clover_com"
    ELSE "none"

\* The role a lower-cased device name is assigned to (the elif chain of
\* substring tests); "none" is the `else: continue` branch.
NetworkRole(device_name_lower) ==
    IF In(<<"m","e","r","a","k","i">>, device_name_lower) THEN "meraki_device"
    ELSE IF In(<<"r","o","u","t","e","r">>, device_name_lower) THEN "router"
    ELSE IF In(<<"p","d","u">>, device_name_lower) THEN "pdu"
    ELSE IF In(<<"v","i","t","u","p","a","y">>, device_name_lower) THEN "vitupay_com"
    ELSE IF In(<<"p","i">>, device_name_lower) THEN "pi_device"
    ELSE IF In(<<"d",".","c","l","o","v","e","r",".","c","o","m">>, device_name_lower) THEN "clover_com"
    ELSE "none"

\* Variant: the last branch names the down codes, and a code in no branch is
\* not counted.
NetworkCountStatus_NamedDown(self, status_int) ==
    IF status_int = 3 THEN [self EXCEPT !.up_devices = @ + 1]
    ELSE IF status_int \in {2, 4, 6, 10, 11, 14} THEN [self EXCEPT !.warning_devices = @ + 1]
    ELSE IF status_int \in {7, 8, 9, 12} THEN [self EXCEPT !.paused_devices = @ + 1]
    ELSE IF status_int \in {0, 1, 5, 13} THEN [self EXCEPT !.down_devices = @ + 1]
    ELSE self

\* "Check the status of this network device."
NetworkCountStatus(self, status_int) ==
    IF status_int = 3 THEN [self EXCEPT !.up_devices = @ + 1]
    ELSE IF status_int \in {2, 4, 6, 10, 11, 14} THEN [self EXCEPT !.warning_devices = @ + 1]
    ELSE IF status_int \in {7, 8, 9, 12} THEN [self EXCEPT !.paused_devices = @ + 1]
    ELSE [self EXCEPT !.down_devices = @ + 1]

\* Variant: a sensor is counted only if its role had no sensor yet.
NetworkIterate_OncePerRole(self, sensor) ==
    IF In(NETWORK_DEVICES, sensor.device_group)
    THEN LET named == [self EXCEPT !.name = sensor.device_group]
             role == NetworkRole(Lower(sensor.device_name))
         IN IF role = "none"
            THEN named
            ELSE IF self[role] = None
                 THEN NetworkCountStatus([named EXCEPT ![role] = sensor], sensor.status_int)
                 ELSE [named EXCEPT ![role] = sensor]
    ELSE self

\* One iteration of "for ping_sensor in all_probe_ping_sensors".
NetworkIterate(self, sensor) ==
    IF In(NETWORK_DEVICES, sensor.device_group)
    THEN LET named == [self EXCEPT !.name = sensor.device_group]
             role == NetworkRole(Lower(sensor.device_name))
         IN IF role = "none"
            THEN named
            ELSE NetworkCountStatus([named EXCEPT ![role] = sensor], sensor.status_int)
    ELSE self

\* Variant: the test for five or fewer devices up comes before the test for
\* a majority of paused devices.
NetworkOverallStatus_CriticalFirst(self) ==
    IF self.up_devices = 7 THEN "HEALTHY"
    ELSE IF self.up_devices = 6
            \/ self.warning_devices > (self.up_devices + self.paused_devices + self.down_devices)
         THEN "DEGRADED"
    ELSE IF self.up_devices <= 5 THEN "CRITICAL"
    ELSE IF self.paused_devices > (self.up_devices + self.warning_devices + self.down_devices)
         THEN "PAUSED"
    ELSE "UNKNOWN"

\* "Determine the overall status of this group."
NetworkOverallStatus(self) ==
    IF self.up_devices = 7 THEN "HEALTHY"
    ELSE IF self.up_devices = 6
            \/ self.warning_devices > (self.up_devices + self.paused_devices + self.down_devices)
         THEN "DEGRADED"
    ELSE IF self.paused_devices > (self.up_devices + self.warning_devices + self.down_devices)
         THEN "PAUSED"
    ELSE IF self.up_devices <= 5 THEN "CRITICAL"
    ELSE "UNKNOWN"

NetworkDecide(self) == [self EXCEPT !.overall_status = NetworkOverallStatus(self)]

RECURSIVE NetworkLoop(_, _)
NetworkLoop(self, sensors) ==
    IF sensors = <<>> THEN self
    ELSE NetworkLoop(NetworkIterate(self, Head(sensors)), Tail(sensors))

\* NetworkGroupStatus.__init__
NetworkGroupStatus(sensors, dongle_sensor) ==
    NetworkDecide(NetworkLoop(NetworkAddDongle(NetworkGroupStatus_defaults, dongle_sensor), sensors))

(***************************************************************************)
(* Python float arithmetic (IEEE 754 binary64, round to nearest, ties to   *)
(* even), as far as "(up / total) * 100" compared with 90 and 80 needs it. *)
(* A float is [m, e]: m is the 53-bit significand, most significant bit    *)
(* first, and e the exponent of its first bit; its value is                *)
(* m[1].m[2]...m[53] (binary) * 2^e.                                       *)
(***************************************************************************)
MantissaBits == 53

Zeros(n) == [i \in 1..n |-> 0]

\* 0.0: its exponent is below that of every other float of the model.
FloatZero == [m |-> Zeros(MantissaBits), e |-> -1075]

\* The bits of the natural number n, most significant first (n > 0).
RECURSIVE NatBits(_)
NatBits(n) == IF n < 2 THEN <<n>> ELSE Append(NatBits(n \div 2), n % 2)

\* The float equal to the natural number n, 0 < n < 2^53.
FloatOfNat(n) ==
    LET bits == NatBits(n)
    IN [m |-> bits \o Zeros(MantissaBits - Len(bits)), e |-> Len(bits) - 1]

\* bits + 1, same length; the carry out of the first bit is dropped (the
\* caller tests AllOnes).
RECURSIVE Increment(_)
Increment(bits) ==
    IF bits = <<>> THEN <<>>
    ELSE LET n == Len(bits)
         IN IF bits[n] = 0
            THEN [bits EXCEPT ![n] = 1]
            ELSE Append(Increment(SubSeq(bits, 1, n - 1)), 0)

AllOnes(bits) == \A i \in 1..Len(bits) : bits[i] = 1

\* Rounds a significand kept with its exactness information to a float:
\* `round_up` says whether the discarded part is above half a unit in the
\* last place, or exactly half with the last kept bit odd.
RoundFloat(kept, e, round_up) ==
    IF ~round_up THEN [m |-> kept, e |-> e]
    ELSE IF AllOnes(kept) THEN [m |-> <<1>> \o Zeros(MantissaBits - 1), e |-> e + 1]
    ELSE [m |-> Increment(kept), e |-> e]

\* n quotient bits of r / t after the binary point, for 0 <= r < t.
RECURSIVE DivisionBits(_, _, _)
DivisionBits(r, t, n) ==
    IF n = 0 THEN <<>>
    ELSE LET b == IF 2 * r >= t THEN 1 ELSE 0
         IN <<b>> \o DivisionBits(2 * r - b * t, t, n - 1)

\* The remainder left after those n bits.
RECURSIVE DivisionRemainder(_, _, _)
DivisionRemainder(r, t, n) ==
    IF n = 0 THEN r
    ELSE LET b == IF 2 * r >= t THEN 1 ELSE 0
         IN DivisionRemainder(2 * r - b * t, t, n - 1)

\* The least k with u * 2^k >= t, for 0 < u <= t.
RECURSIVE Shift(_, _)
Shift(u, t) == IF u >= t THEN 0 ELSE 1 + Shift(2 * u, t)

RECURSIVE Pow2(_)
Pow2(k) == IF k = 0 THEN 1 ELSE 2 * Pow2(k - 1)

\* What a division by zero yields in place of a float.
ZeroDivisionError == [m |-> <<>>, e |-> 0]

\* int / int, true division, for 0 <= u <= t (a count of a part of the
\* sensors over the count of all of them).
TrueDivide(u, t) ==
    IF t = 0 THEN ZeroDivisionError
    ELSE IF u = 0 THEN FloatZero
    ELSE LET k == Shift(u, t)
             r == u * Pow2(k) - t
             kept == <<1>> \o DivisionBits(r, t, MantissaBits - 1)
             rest == DivisionRemainder(r, t, MantissaBits - 1)
             round_up == 2 * rest > t \/ (2 * rest = t /\ kept[MantissaBits] = 1)
         IN RoundFloat(kept, -k, round_up)

\* bits (least significant first) times the natural number c, with a carry.
RECURSIVE TimesNatLSB(_, _, _)
TimesNatLSB(bits, c, carry) ==
    IF bits = <<>>
    THEN IF carry = 0 THEN <<>> ELSE <<carry % 2>> \o TimesNatLSB(<<>>, c, carry \div 2)
    ELSE LET v == Head(bits) * c + carry
         IN <<v % 2>> \o TimesNatLSB(Tail(bits), c, v \div 2)

Reverse(s) == [i \in 1..Len(s) |-> s[Len(s) + 1 - i]]

\* float * int for a natural number c > 0: the exact product, rounded.
TimesNat(x, c) ==
    IF x = ZeroDivisionError THEN ZeroDivisionError
    ELSE IF x = FloatZero THEN FloatZero
    ELSE LET product == Reverse(TimesNatLSB(Reverse(x.m), c, 0))
             extra == Len(product) - MantissaBits
             kept == SubSeq(product, 1, MantissaBits)
             dropped == SubSeq(product, MantissaBits + 1, Len(product))
             above_half == dropped # <<>> /\ dropped[1] = 1
                           /\ \E i \in 2..Len(dropped) : dropped[i] = 1
             half == dropped # <<>> /\ dropped[1] = 1
                     /\ \A i \in 2..Len(dropped) : dropped[i] = 0
             round_up == above_half \/ (half /\ kept[MantissaBits] = 1)
         IN RoundFloat(kept, x.e + extra, round_up)

\* x >= y for floats that are 0.0 or positive.
FloatGE(x, y) ==
    IF x.e # y.e THEN x.e > y.e
    ELSE \/ x.m = y.m
         \/ \E i \in 1..MantissaBits :
               /\ x.m[i] > y.m[i]
               /\ \A j \in 1..(i - 1) : x.m[j] = y.m[j]

\* x < y
FloatLT(x, y) == ~FloatGE(x, y)

(***************************************************************************)
(* CloverGroupStatus                                                       *)
(***************************************************************************)
\* The class-level defaults an instance starts from.
CloverGroupStatus_defaults ==
    [name |-> UnsetName, overall_status |-> UNSET,
     up_clovers |-> 0, warning_clovers |-> 0, paused_clovers |-> 0, down_clovers |-> 0,
     total_clovers |-> 0]

\* "Check the status of this Clover device."
CloverCountStatus(self, status_int) ==
    IF status_int = 3 THEN [self EXCEPT !.up_clovers = @ + 1]
    ELSE IF status_int \in {2, 4, 6, 10, 11, 14} THEN [self EXCEPT !.warning_clovers = @ + 1]
    ELSE IF status_int \in {7, 8, 9, 12} THEN [self EXCEPT !.paused_clovers = @ + 1]
    ELSE [self EXCEPT !.down_clovers = @ + 1]

\* Variant: total_clovers is incremented for every sensor of the sweep.
CloverIterate_CountsAll(self, sensor) ==
    IF In(CLOVER_DEVICES, sensor.device_group)
    THEN LET counted == CloverCountStatus([self EXCEPT !.name = sensor.device_group],
                                          sensor.status_int)
         IN [counted EXCEPT !.total_clovers = @ + 1]
    ELSE [self EXCEPT !.total_clovers = @ + 1]

\* One iteration of "for ping_sensor in all_probe_ping_sensors".
CloverIterate(self, sensor) ==
    IF In(CLOVER_DEVICES, sensor.device_group)
    THEN LET counted == CloverCountStatus([self EXCEPT !.name = sensor.device_group],
                                          sensor.status_int)
         IN [counted EXCEPT !.total_clovers = @ + 1]
    ELSE self

\* percent_of_online_clovers
CloverPercent(self) == TimesNat(TrueDivide(self.up_clovers, self.total_clovers), 100)

\* Variant: the two thresholds are exclusive (more than 90, more than 80).
CloverOverallStatus_Exclusive(self) ==
    LET percent_of_online_clovers == CloverPercent(self)
    IN IF FloatLT(FloatOfNat(90), percent_of_online_clovers) THEN "HEALTHY"
       ELSE IF FloatLT(FloatOfNat(80), percent_of_online_clovers)
               \/ self.warning_clovers > (self.up_clovers + self.down_clovers + self.paused_clovers)
            THEN "DEGRADED"
       ELSE IF self.paused_clovers > (self.up_clovers + self.down_clovers + self.warning_clovers)
            THEN "PAUSED"
       ELSE IF FloatLT(percent_of_online_clovers, FloatOfNat(80)) THEN "CRITICAL"
       ELSE "UNKNOWN"

\* Variant: the last elif tests for less than 50% of the Clovers up.
CloverOverallStatus_CriticalBelowHalf(self) ==
    LET percent_of_online_clovers == CloverPercent(self)
    IN IF FloatGE(percent_of_online_clovers, FloatOfNat(90)) THEN "HEALTHY"
       ELSE IF FloatGE(percent_of_online_clovers, FloatOfNat(80))
               \/ self.warning_clovers > (self.up_clovers + self.down_clovers + self.paused_clovers)
            THEN "DEGRADED"
       ELSE IF self.paused_clovers > (self.up_clovers + self.down_clovers + self.warning_clovers)
            THEN "PAUSED"
       ELSE IF FloatLT(percent_of_online_clovers, FloatOfNat(50)) THEN "CRITICAL"
       ELSE "UNKNOWN"

\* The if-chain over percent_of_online_clovers and the counts.
CloverOverallStatus(self) ==
    LET percent_of_online_clovers == CloverPercent(self)
    IN IF FloatGE(percent_of_online_clovers, FloatOfNat(90)) THEN "HEALTHY"
       ELSE IF FloatGE(percent_of_online_clovers, FloatOfNat(80))
               \/ self.warning_clovers > (self.up_clovers + self.down_clovers + self.paused_clovers)
            THEN "DEGRADED"
       ELSE IF self.paused_clovers > (self.up_clovers + self.down_clovers + self.warning_clovers)
            THEN "PAUSED"
       ELSE IF FloatLT(percent_of_online_clovers, FloatOfNat(80)) THEN "CRITICAL"
       ELSE "UNKNOWN"

\* Variant: no test for a site without Clovers.
CloverDivides_Unguarded(self) == TRUE

\* "Check if there are Clovers at this site": whether the part of the
\* constructor after the loop divides.
CloverDivides(self) == self.total_clovers # 0

\* The exception that part raises ("None": it returns).
CloverRaised(self) ==
    IF CloverDivides(self) /\ CloverPercent(self) = ZeroDivisionError
    THEN "ZeroDivisionError"
    ELSE "None"

\* The part of the constructor after the loop.
CloverDecide(self) ==
    IF ~CloverDivides(self)
    THEN [self EXCEPT !.name = <<>>, !.overall_status = "UNKNOWN"]
    ELSE IF CloverRaised(self) # "None" THEN self
    ELSE [self EXCEPT !.overall_status = CloverOverallStatus(self)]

RECURSIVE CloverLoop(_, _)
CloverLoop(self, sensors) ==
    IF sensors = <<>> THEN self
    ELSE CloverLoop(CloverIterate(self, Head(sensors)), Tail(sensors))

\* CloverGroupStatus.__init__
CloverGroupStatus(sensors) == CloverDecide(CloverLoop(CloverGroupStatus_defaults, sensors))

(***************************************************************************)
(* normalize_overall_site_status: the probe object after the call (the     *)
(* function assigns to probe_device.overall_status and to nothing else).   *)
(***************************************************************************)
\* Variant: the site is paused as soon as one of the two groups is.
NormalizeHealthy_PausedEither(probe, network, clover) ==
    IF network.overall_status = "CRITICAL" \/ clover.overall_status = "CRITICAL"
    THEN [probe EXCEPT !.overall_status = "CRITICAL"]
    ELSE IF network.overall_status = "DEGRADED" \/ clover.overall_status = "DEGRADED"
    THEN [probe EXCEPT !.overall_status = "DEGRADED"]
    ELSE IF network.overall_status = "PAUSED" \/ clover.overall_status = "PAUSED"
    THEN [probe EXCEPT !.overall_status = "PAUSED"]
    ELSE probe

\* Variant: only a critical group changes the status of a healthy probe.
NormalizeHealthy_CriticalOnly(probe, network, clover) ==
    IF network.overall_status = "CRITICAL" \/ clover.overall_status = "CRITICAL"
    THEN [probe EXCEPT !.overall_status = "CRITICAL"]
    ELSE probe

\* The branch for a healthy probe.
NormalizeHealthy(probe, network, clover) ==
    IF network.overall_status = "CRITICAL" \/ clover.overall_status = "CRITICAL"
    THEN [probe EXCEPT !.overall_status = "CRITICAL"]
    ELSE IF network.overall_status = "DEGRADED" \/ clover.overall_status = "DEGRADED"
    THEN [probe EXCEPT !.overall_status = "DEGRADED"]
    ELSE IF network.overall_status = "PAUSED" /\ clover.overall_status = "PAUSED"
    THEN [probe EXCEPT !.overall_status = "PAUSED"]
    ELSE probe

\* Variant: only a critical group makes the degraded site critical.
NormalizeDegraded_CriticalOnly(probe, network, clover) ==
    IF network.overall_status = "PAUSED" /\ clover.overall_status = "PAUSED"
    THEN [probe EXCEPT !.overall_status = "PAUSED"]
    ELSE IF network.overall_status = "CRITICAL" \/ clover.overall_status = "CRITICAL"
    THEN [probe EXCEPT !.overall_status = "CRITICAL"]
    ELSE probe

\* Variant: a degraded probe is made paused by two paused groups and is
\* otherwise kept.
NormalizeDegraded_PausedOnly(probe, network, clover) ==
    IF network.overall_status = "PAUSED" /\ clover.overall_status = "PAUSED"
    THEN [probe EXCEPT !.overall_status = "PAUSED"]
    ELSE probe

\* The branch for a degraded probe.
NormalizeDegraded(probe, network, clover) ==
    IF network.overall_status = "PAUSED" /\ clover.overall_status = "PAUSED"
    THEN [probe EXCEPT !.overall_status = "PAUSED"]
    ELSE IF \/ network.overall_status = "CRITICAL" \/ network.overall_status = "DEGRADED"
            \/ clover.overall_status = "CRITICAL" \/ clover.overall_status = "DEGRADED"
    THEN [probe EXCEPT !.overall_status = "CRITICAL"]
    ELSE probe

\* Variant: a probe that is neither healthy nor degraded is made critical by
\* a critical group.
normalize_overall_site_status_Escalates(probe, network, clover) ==
    IF probe.overall_status = "HEALTHY" THEN NormalizeHealthy(probe, network, clover)
    ELSE IF probe.overall_status = "DEGRADED" THEN NormalizeDegraded(probe, network, clover)
    ELSE IF network.overall_status = "CRITICAL" \/ clover.overall_status = "CRITICAL"
    THEN [probe EXCEPT !.overall_status = "CRITICAL"]
    ELSE probe

normalize_overall_site_status(probe, network, clover) ==
    IF probe.overall_status = "HEALTHY" THEN NormalizeHealthy(probe, network, clover)
    ELSE IF probe.overall_status = "DEGRADED" THEN NormalizeDegraded(probe, network, clover)
    ELSE probe

(***************************************************************************)
(* Inputs: sensor records as the PRTG lookups return them.                 *)
(***************************************************************************)
\* device groups
GroupNetwork == <<"0","1","0"," ","N","e","t","w","o","r","k"," ","D","e","v","i","c","e","s">>
GroupClover == <<"0","1","0"," ","C","l","o","v","e","r"," ","D","e","v","i","c","e","s">>
GroupLteOnly == <<"0","1","0"," ","L","T","E"," ","O","n","l","y">>
GroupStore == <<"0","1","0"," ","S","t","o","r","e">>
GroupDongle == <<"P","I"," ","-"," ","L","T","E">>

\* device names
NameMeraki == <<"M","e","r","a","k","i">>
NameRouter == <<"R","o","u","t","e","r">>
NamePdu == <<"P","D","U">>
NameVitupay == <<"a","p","i",".","c","a",".","v","i","t","u","p","a","y",".","c","o","m">>
NamePi == <<"P","i">>
NameCloverCom == <<"d",".","c","l","o","v","e","r",".","c","o","m">>
NameSwitch == <<"S","w","i","t","c","h">>
NameClover == <<"C","l","o","v","e","r">>
NameProbe == <<"P","r","o","b","e">>

\* One device name for each role of the network group, in the order of the
\* constructor's substring tests.
RoleNames == <<NameMeraki, NameRouter, NamePdu, NameVitupay, NamePi, NameCloverCom>>

\* The status codes of STATUS_MAP by the meaning of their text: Up; Scanning,
\* Warning, No Probe, Unusual, Not Licensed, Down Partial; the four Paused;
\* None, Unknown, Down, Down Acknowledged.
UpCodes == <<3>>
WarningCodes == <<2, 4, 6, 10, 11, 14>>
PausedCodes == <<7, 8, 9, 12>>
DownCodes == <<0, 1, 5, 13>>

Cycle(seq, i) == seq[((i - 1) % Len(seq)) + 1]

\* A ping sweep of one group with u sensors up, then w in a warning state,
\* p paused and d down; names and codes cycle through `names` and through
\* the codes of each kind.
SensorsByCount(group, names, u, w, p, d) ==
    [i \in 1..(u + w + p + d) |->
        Sensor(Cycle(names, i), group,
               IF i <= u THEN Cycle(UpCodes, i)
               ELSE IF i <= u + w THEN Cycle(WarningCodes, i - u)
               ELSE IF i <= u + w + p THEN Cycle(PausedCodes, i - u - w)
               ELSE Cycle(DownCodes, i - u - w - p))]

\* The quadruples of naturals with sum at most n.
Counts(n) ==
    {c \in (0..n) \X (0..n) \X (0..n) \X (0..n) : c[1] + c[2] + c[3] + c[4] <= n}

\* The LTE dongle lookup results the constructor is given.
DongleSensors == {None} \cup {Sensor(NamePi, GroupDongle, c) : c \in {3, 4, 7, 5}}

(***************************************************************************)
(* SpecClassify: one status code put through the three if-chains that      *)
(* classify it (in ProbeDeviceStatus, NetworkGroupStatus and               *)
(* CloverGroupStatus), in any order.                                       *)
(***************************************************************************)
\* The attributes the class statements of NetworkGroupStatus and
\* CloverGroupStatus bind: what an instance reads before it has assigned an
\* attribute of its own.
ClassAttributes ==
    [NetworkGroupStatus |-> NetworkGroupStatus_defaults,
     CloverGroupStatus |-> CloverGroupStatus_defaults]

\* No command is executing: the evaluators are looked at on their own.
NoCommand ==
    /\ arguments = None
    /\ lookups = <<>>
    /\ gathered = None
    /\ posted = <<>>
    /\ class_attrs = ClassAttributes
    /\ requests = <<>>

ProbeUnclassified ==
    [probe_health_sensor |-> probe_health_sensor,
     primary_interface_sensor |-> primary_interface_sensor,
     is_lte_only |-> In(LTE_ONLY, probe_health_sensor.device_group),
     overall_status |-> UNSET, primary_interface_description |-> UNSET]

NetworkCounted(self) ==
    self.up_devices + self.warning_devices + self.paused_devices + self.down_devices

CloverCounted(self) ==
    self.up_clovers + self.warning_clovers + self.paused_clovers + self.down_clovers

InitClassify ==
    /\ pc = "classify"
    /\ ping_sensor \in {Sensor(NameMeraki, GroupNetwork, c) : c \in StatusCodes}
    /\ probe_health_sensor = Sensor(NameProbe, GroupStore, ping_sensor.status_int)
    /\ primary_interface_sensor = Sensor(NameProbe, GroupStore, 3)
    /\ site_pi_lte_dongle_sensor = None
    /\ all_probe_ping_sensors = <<>>
    /\ probe_device = ProbeUnclassified
    /\ network_devices = NetworkGroupStatus_defaults
    /\ clover_devices = CloverGroupStatus_defaults
    /\ raised = "None"
    /\ NoCommand

ClassifyProbe ==
    /\ pc = "classify"
    /\ probe_device.overall_status = UNSET
    /\ probe_device' = [probe_device EXCEPT
                           !.overall_status = ProbeOverallStatus(probe_health_sensor.status_int)]
    /\ UNCHANGED <<pc, ping_sensor, probe_health_sensor, primary_interface_sensor,
                   site_pi_lte_dongle_sensor, all_probe_ping_sensors,
                   network_devices, clover_devices, raised>>
    /\ UNCHANGED command_vars

ClassifyNetwork ==
    /\ pc = "classify"
    /\ NetworkCounted(network_devices) = 0
    /\ network_devices' = NetworkCountStatus(network_devices, ping_sensor.status_int)
    /\ UNCHANGED <<pc, ping_sensor, probe_health_sensor, primary_interface_sensor,
                   site_pi_lte_dongle_sensor, all_probe_ping_sensors,
                   probe_device, clover_devices, raised>>
    /\ UNCHANGED command_vars

ClassifyClover ==
    /\ pc = "classify"
    /\ CloverCounted(clover_devices) = 0
    /\ clover_devices' = CloverCountStatus(clover_devices, ping_sensor.status_int)
    /\ UNCHANGED <<pc, ping_sensor, probe_health_sensor, primary_interface_sensor,
                   site_pi_lte_dongle_sensor, all_probe_ping_sensors,
                   probe_device, network_devices, raised>>
    /\ UNCHANGED command_vars

NextClassify == ClassifyProbe \/ ClassifyNetwork \/ ClassifyClover

SpecClassify == InitClassify /\ [][NextClassify]_vars

\* The four sets of codes the classification is claimed to distinguish.
CodesUp == {3}
CodesWarning == {2, 4, 6, 10, 11, 14}
CodesPaused == {7, 8, 9, 12}
CodesDown == {0, 1, 5, 13}

\* C1: every status code 0..14 lies in exactly one of the four code sets
\* (they are pairwise disjoint and cover 0..14), and each of the three
\* if-chains puts the code in the class of its set: 3 is Healthy / up,
\* {2,4,6,10,11,14} Degraded / warning, {7,8,9,12} Paused, {0,1,5,13}
\* Critical / down; so the three call sites agree on every code.
ClassificationPartitions ==
    LET code == ping_sensor.status_int
        sets == <<CodesUp, CodesWarning, CodesPaused, CodesDown>>
        tiers == <<"HEALTHY", "DEGRADED", "PAUSED", "CRITICAL">>
        network_counts == <<network_devices.up_devices, network_devices.warning_devices,
                            network_devices.paused_devices, network_devices.down_devices>>
        clover_counts == <<clover_devices.up_clovers, clover_devices.warning_clovers,
                           clover_devices.paused_clovers, clover_devices.down_clovers>>
    IN /\ code \in 0..14
       /\ Cardinality({k \in 1..4 : code \in sets[k]}) = 1
       /\ \A k \in 1..4 : code \in sets[k] =>
            /\ probe_device.overall_status # UNSET => probe_device.overall_status = tiers[k]
            /\ NetworkCounted(network_devices) # 0 =>
                  \A j \in 1..4 : network_counts[j] = (IF j = k THEN 1 ELSE 0)
            /\ CloverCounted(clover_devices) # 0 =>
                  \A j \in 1..4 : clover_counts[j] = (IF j = k THEN 1 ELSE 0)

\* A code of the down kind classified at all three sites.
ClassificationWitness ==
    /\ pc = "classify"
    /\ ping_sensor.status_int = 13
    /\ probe_device.overall_status = "CRITICAL"
    /\ network_devices.down_devices = 1
    /\ clover_devices.down_clovers = 1

(***************************************************************************)
(* SpecProbe: ProbeDeviceStatus(site_probe_health_sensor,                  *)
(* site_primary_interface_sensor) for every pair of status codes and for   *)
(* probe groups with and without "LTE Only" in their name.                 *)
(***************************************************************************)
ProbeGroups == {GroupLteOnly, GroupStore}

InitProbe ==
    /\ pc = "probe"
    /\ probe_health_sensor \in {Sensor(NameProbe, g, c) : g \in ProbeGroups, c \in StatusCodes}
    /\ primary_interface_sensor \in
          {Sensor(NameProbe, probe_health_sensor.device_group, c) : c \in StatusCodes}
    /\ ping_sensor = None
    /\ site_pi_lte_dongle_sensor = None
    /\ all_probe_ping_sensors = <<>>
    /\ probe_device = None
    /\ network_devices = None
    /\ clover_devices = None
    /\ raised = "None"
    /\ NoCommand

ProbeInit ==
    /\ pc = "probe"
    /\ probe_device' = ProbeDeviceStatus(probe_health_sensor, primary_interface_sensor)
    /\ pc' = "done"
    /\ UNCHANGED <<ping_sensor, probe_health_sensor, primary_interface_sensor,
                   site_pi_lte_dongle_sensor, all_probe_ping_sensors,
                   network_devices, clover_devices, raised>>
    /\ UNCHANGED command_vars

NextProbe == ProbeInit

SpecProbe == InitProbe /\ [][NextProbe]_vars

\* C5: with health code 3, the probe is Healthy with "Site is on ISP
\* connection" if the primary-interface code is 3; Healthy with "Site is on
\* LTE connection" if the interface code is not 3 and the health sensor's
\* group contains "LTE Only"; and Degraded with "Site has failed over to LTE
\* connection" if the interface code is not 3 and the group does not.
ProbeUpFailover ==
    (pc = "done" /\ probe_health_sensor.status_int = 3) =>
        LET isp == primary_interface_sensor.status_int = 3
            lte == probe_health_sensor.device_group = GroupLteOnly
        IN /\ isp =>
                /\ probe_device.overall_status = "HEALTHY"
                /\ probe_device.primary_interface_description = "Site is on ISP connection"
           /\ (~isp /\ lte) =>
                /\ probe_device.overall_status = "HEALTHY"
                /\ probe_device.primary_interface_description = "Site is on LTE connection"
           /\ (~isp /\ ~lte) =>
                /\ probe_device.overall_status = "DEGRADED"
                /\ probe_device.primary_interface_description
                      = "Site has failed over to LTE connection"

\* An up probe of a site that is not LTE-only, with its interface down.
ProbeUpFailoverWitness ==
    /\ pc = "done"
    /\ probe_health_sensor.status_int = 3
    /\ primary_interface_sensor.status_int = 5
    /\ probe_health_sensor.device_group = GroupStore
    /\ probe_device.overall_status = "DEGRADED"

\* C6: with a health code other than 3 the description is "Site is down" and
\* the status is the class of the health code alone (Degraded, Paused or
\* Critical), whatever the primary-interface code and whether or not the
\* site is LTE-only.
ProbeDownKeepsClass ==
    (pc = "done" /\ probe_health_sensor.status_int # 3) =>
        /\ probe_device.primary_interface_description = "Site is down"
        /\ probe_device.overall_status =
              (IF probe_health_sensor.status_int \in CodesWarning THEN "DEGRADED"
               ELSE IF probe_health_sensor.status_int \in CodesPaused THEN "PAUSED"
               ELSE "CRITICAL")

\* A paused probe of a site that is not LTE-only, with its interface down.
ProbeDownKeepsClassWitness ==
    /\ pc = "done"
    /\ probe_health_sensor.status_int = 7
    /\ primary_interface_sensor.status_int = 5
    /\ probe_health_sensor.device_group = GroupStore
    /\ probe_device.overall_status = "PAUSED"
    /\ probe_device.primary_interface_description = "Site is down"

(***************************************************************************)
(* SpecNormalize: normalize_overall_site_status on the three objects the   *)
(* constructors built.  ProbeDeviceStatus.__init__ never assigns           *)
(* OverallStatus.UNKNOWN; the probe objects include one with that member   *)
(* of the enum, which the function's comparisons let through.              *)
(***************************************************************************)
NormalizeProbeCodes == {3, 4, 7, 5}
NormalizeInterfaceCodes == {3, 5}
NormalizeNetworkCounts == {<<6, 0, 0, 0>>, <<7, 0, 0, 0>>, <<0, 0, 1, 0>>, <<0, 0, 0, 0>>}
NormalizeCloverCounts ==
    {<<1, 0, 0, 0>>, <<0, 1, 0, 0>>, <<0, 0, 1, 0>>, <<0, 0, 0, 1>>, <<0, 0, 0, 0>>}

InitNormalize ==
    /\ pc = "normalize"
    /\ probe_health_sensor \in
          {Sensor(NameProbe, g, c) : g \in ProbeGroups, c \in NormalizeProbeCodes}
    /\ primary_interface_sensor \in
          {Sensor(NameProbe, probe_health_sensor.device_group, c) : c \in NormalizeInterfaceCodes}
    /\ site_pi_lte_dongle_sensor \in {None, Sensor(NamePi, GroupDongle, 3)}
    /\ \E n \in NormalizeNetworkCounts, c \in NormalizeCloverCounts :
          all_probe_ping_sensors =
              SensorsByCount(GroupNetwork, RoleNames, n[1], n[2], n[3], n[4])
              \o SensorsByCount(GroupClover, <<NameClover>>, c[1], c[2], c[3], c[4])
    /\ ping_sensor = None
    /\ \E built \in {ProbeDeviceStatus(probe_health_sensor, primary_interface_sensor)} :
          probe_device \in {built, [built EXCEPT !.overall_status = "UNKNOWN"]}
    /\ network_devices = NetworkGroupStatus(all_probe_ping_sensors, site_pi_lte_dongle_sensor)
    /\ clover_devices = CloverGroupStatus(all_probe_ping_sensors)
    /\ raised = "None"
    /\ NoCommand

Normalize ==
    /\ pc = "normalize"
    /\ probe_device' = normalize_overall_site_status(probe_device, network_devices, clover_devices)
    /\ pc' = "done"
    /\ UNCHANGED <<ping_sensor, probe_health_sensor, primary_interface_sensor,
                   site_pi_lte_dongle_sensor, all_probe_ping_sensors,
                   network_devices, clover_devices, raised>>
    /\ UNCHANGED command_vars

NextNormalize == Normalize

SpecNormalize == InitNormalize /\ [][NextNormalize]_vars

\* C2: from a Healthy probe, the site is Critical if the network or the
\* Clover group is Critical; otherwise Degraded if one of them is Degraded;
\* otherwise Paused if both are Paused; otherwise Healthy.
NormalizeFromHealthy ==
    [][(pc = "normalize" /\ probe_device.overall_status = "HEALTHY") =>
          probe_device'.overall_status =
             (IF "CRITICAL" \in {network_devices.overall_status, clover_devices.overall_status}
              THEN "CRITICAL"
              ELSE IF "DEGRADED" \in {network_devices.overall_status, clover_devices.overall_status}
              THEN "DEGRADED"
              ELSE IF {network_devices.overall_status, clover_devices.overall_status} = {"PAUSED"}
              THEN "PAUSED"
              ELSE "HEALTHY")]_vars

\* A probe that was built Healthy (up, on its ISP connection) and whose site
\* is Paused after normalization because both groups are.
NormalizeFromHealthyWitness ==
    /\ pc = "done"
    /\ probe_device.primary_interface_description = "Site is on ISP connection"
    /\ network_devices.overall_status = "PAUSED"
    /\ clover_devices.overall_status = "PAUSED"
    /\ probe_device.overall_status = "PAUSED"

\* C3: from a Degraded probe, the site is Paused if both groups are Paused;
\* otherwise Critical if the network or the Clover group is Critical or
\* Degraded; otherwise it stays Degraded.
NormalizeFromDegraded ==
    [][(pc = "normalize" /\ probe_device.overall_status = "DEGRADED") =>
          probe_device'.overall_status =
             (IF {network_devices.overall_status, clover_devices.overall_status} = {"PAUSED"}
              THEN "PAUSED"
              ELSE IF {network_devices.overall_status, clover_devices.overall_status}
                         \cap {"CRITICAL", "DEGRADED"} # {}
              THEN "CRITICAL"
              ELSE "DEGRADED")]_vars

\* A probe that was built Degraded (failed over) and whose site is Critical
\* after normalization because the network group is Degraded.
NormalizeFromDegradedWitness ==
    /\ pc = "done"
    /\ probe_device.primary_interface_description = "Site has failed over to LTE connection"
    /\ network_devices.overall_status = "DEGRADED"
    /\ clover_devices.overall_status = "HEALTHY"
    /\ probe_device.overall_status = "CRITICAL"

\* C4: a probe that is Paused, Critical or Unknown keeps its status whatever
\* the two groups are, and in every case the call changes nothing but the
\* probe's overall status: the two group objects, and the other fields of
\* the probe (the failover description among them), stay as they were.
NormalizeFrame ==
    [][pc = "normalize" =>
          /\ probe_device.overall_status \in {"PAUSED", "CRITICAL", "UNKNOWN"} =>
                probe_device'.overall_status = probe_device.overall_status
          /\ network_devices' = network_devices
          /\ clover_devices' = clover_devices
          /\ probe_device' = [probe_device EXCEPT !.overall_status = probe_device'.overall_status]
      ]_vars

\* A paused probe next to a Critical network group, still Paused after the
\* call.
NormalizeFrameWitness ==
    /\ pc = "done"
    /\ probe_health_sensor.status_int = 7
    /\ network_devices.overall_status = "CRITICAL"
    /\ probe_device.overall_status = "PAUSED"
    /\ probe_device.primary_interface_description = "Site is down"

(***************************************************************************)
(* SpecNetwork: NetworkGroupStatus(site_ping_sensors,                      *)
(* site_pi_lte_dongle_sensor) on ping sweeps with every combination of     *)
(* numbers of network sensors up, in a warning state, paused and down, of  *)
(* at most MaxNetworkSensors sensors, with and without sensors the         *)
(* constructor has to skip in front of them.                               *)
(***************************************************************************)
\* A Clover sensor and a network device of no known role.
SkippedByNetwork == <<Sensor(NameClover, GroupClover, 3), Sensor(NameSwitch, GroupNetwork, 3)>>

InitNetwork ==
    /\ pc = "network"
    /\ site_pi_lte_dongle_sensor \in DongleSensors
    /\ \E n \in Counts(MaxNetworkSensors), skipped \in {<<>>, SkippedByNetwork} :
          all_probe_ping_sensors =
              skipped \o SensorsByCount(GroupNetwork, RoleNames, n[1], n[2], n[3], n[4])
    /\ ping_sensor = None
    /\ probe_health_sensor = None
    /\ primary_interface_sensor = None
    /\ probe_device = None
    /\ network_devices = None
    /\ clover_devices = None
    /\ raised = "None"
    /\ NoCommand

NetworkInit ==
    /\ pc = "network"
    /\ network_devices' = NetworkGroupStatus(all_probe_ping_sensors, site_pi_lte_dongle_sensor)
    /\ pc' = "done"
    /\ UNCHANGED <<ping_sensor, probe_health_sensor, primary_interface_sensor,
                   site_pi_lte_dongle_sensor, all_probe_ping_sensors,
                   probe_device, clover_devices, raised>>
    /\ UNCHANGED command_vars

NextNetwork == NetworkInit

SpecNetwork == InitNetwork /\ [][NextNetwork]_vars

\* C7: the network group's status is decided by the first rule that its
\* final counts match: 7 up is Healthy; 6 up, or more warnings than all the
\* other counts together, is Degraded; more paused than all the other counts
\* together is Paused; 5 or fewer up is Critical; anything else is Unknown.
\* So exactly 6 up is Degraded, and 5 or fewer up without a majority of
\* warnings or of paused devices is Critical.
NetworkFirstMatch ==
    pc = "done" =>
        LET up == network_devices.up_devices
            warning == network_devices.warning_devices
            paused == network_devices.paused_devices
            down == network_devices.down_devices
            mostly_warning == warning > up + paused + down
            mostly_paused == paused > up + warning + down
            status == network_devices.overall_status
        IN /\ up = 7 => status = "HEALTHY"
           /\ up = 6 => status = "DEGRADED"
           /\ (up # 7 /\ mostly_warning) => status = "DEGRADED"
           /\ (up \notin {6, 7} /\ ~mostly_warning /\ mostly_paused) => status = "PAUSED"
           /\ (up <= 5 /\ ~mostly_warning /\ ~mostly_paused) => status = "CRITICAL"
           /\ (up >= 8 /\ ~mostly_warning /\ ~mostly_paused) => status = "UNKNOWN"

\* Two devices up, two down and three paused: five or fewer up, and the
\* paused devices are no majority.
NetworkFirstMatchWitness ==
    /\ pc = "done"
    /\ network_devices.up_devices = 2
    /\ network_devices.down_devices = 2
    /\ network_devices.paused_devices = 3
    /\ network_devices.overall_status = "CRITICAL"

(***************************************************************************)
(* SpecClover: CloverGroupStatus(site_ping_sensors) on ping sweeps with    *)
(* every combination of numbers of Clover sensors up, in a warning state,  *)
(* paused and down, of at most MaxCloverSensors sensors, with and without  *)
(* a sensor of another group in front of them.                             *)
(***************************************************************************)
SkippedByClover == <<Sensor(NameMeraki, GroupNetwork, 3)>>

InitClover ==
    /\ pc = "clover"
    /\ \E c \in Counts(MaxCloverSensors), skipped \in {<<>>, SkippedByClover} :
          all_probe_ping_sensors =
              skipped \o SensorsByCount(GroupClover, <<NameClover>>, c[1], c[2], c[3], c[4])
    /\ site_pi_lte_dongle_sensor = None
    /\ ping_sensor = None
    /\ probe_health_sensor = None
    /\ primary_interface_sensor = None
    /\ probe_device = None
    /\ network_devices = None
    /\ clover_devices = None
    /\ raised = "None"
    /\ NoCommand

CloverInit ==
    /\ pc = "clover"
    /\ clover_devices' = CloverGroupStatus(all_probe_ping_sensors)
    /\ raised' = CloverRaised(CloverLoop(CloverGroupStatus_defaults, all_probe_ping_sensors))
    /\ pc' = "done"
    /\ UNCHANGED <<ping_sensor, probe_health_sensor, primary_interface_sensor,
                   site_pi_lte_dongle_sensor, all_probe_ping_sensors,
                   probe_device, network_devices>>
    /\ UNCHANGED command_vars

NextClover == CloverInit

SpecClover == InitClover /\ [][NextClover]_vars

\* C8: for a sensor list without any sensor of the Clover group (the empty
\* list included) the constructor ends without an exception, with
\* total_clovers = 0, name = "" and status Unknown.
CloverNoneFound ==
    (pc = "done" /\ \A i \in 1..Len(all_probe_ping_sensors) :
                        all_probe_ping_sensors[i].device_group # GroupClover) =>
        /\ raised = "None"
        /\ clover_devices.total_clovers = 0
        /\ clover_devices.name = <<>>
        /\ clover_devices.overall_status = "UNKNOWN"

\* A sweep that holds one sensor, of the network group.
CloverNoneFoundWitness ==
    /\ pc = "done"
    /\ all_probe_ping_sensors = SkippedByClover
    /\ clover_devices.total_clovers = 0
    /\ clover_devices.overall_status = "UNKNOWN"

\* C9: with at least one Clover the group's status is decided by the first
\* rule that matches: 100 * up >= 90 * total is Healthy; 100 * up >= 80 *
\* total, or more warnings than all the other counts together, is Degraded;
\* more paused than all the other counts together is Paused; otherwise
\* (100 * up < 80 * total) Critical.  Exactly 90% up is Healthy and exactly
\* 80% up is Degraded.
CloverFirstMatch ==
    (pc = "done" /\ clover_devices.total_clovers > 0) =>
        LET up == clover_devices.up_clovers
            warning == clover_devices.warning_clovers
            paused == clover_devices.paused_clovers
            down == clover_devices.down_clovers
            total == clover_devices.total_clovers
            status == clover_devices.overall_status
        IN /\ raised = "None"
           /\ status =
                (IF 100 * up >= 90 * total THEN "HEALTHY"
                 ELSE IF 100 * up >= 80 * total \/ warning > up + down + paused THEN "DEGRADED"
                 ELSE IF paused > up + down + warning THEN "PAUSED"
                 ELSE "CRITICAL")
           /\ 10 * up = 9 * total => status = "HEALTHY"
           /\ 10 * up = 8 * total => status = "DEGRADED"

\* Nine Clovers of ten up: exactly 90%.
CloverFirstMatchWitness ==
    /\ pc = "done"
    /\ clover_devices.total_clovers = 10
    /\ clover_devices.up_clovers = 9
    /\ clover_devices.overall_status = "HEALTHY"

(***************************************************************************)
(* SpecGroups: the two group constructors on the same ping sweep, for      *)
(* every list of at most MaxListLen sensors drawn from sensors of both     *)
(* groups, two of them of the same network role.                           *)
(***************************************************************************)
SweepSensors ==
    {Sensor(NameMeraki, GroupNetwork, 3), Sensor(NameMeraki, GroupNetwork, 5),
     Sensor(NamePi, GroupNetwork, 4), Sensor(NameSwitch, GroupNetwork, 3),
     Sensor(NameClover, GroupClover, 3), Sensor(NameClover, GroupClover, 7)}

Sweeps == UNION {[1..n -> SweepSensors] : n \in 0..MaxListLen}

InitGroups ==
    /\ pc = "groups"
    /\ all_probe_ping_sensors \in Sweeps
    /\ site_pi_lte_dongle_sensor \in {None, Sensor(NamePi, GroupDongle, 3)}
    /\ ping_sensor = None
    /\ probe_health_sensor = None
    /\ primary_interface_sensor = None
    /\ probe_device = None
    /\ network_devices = None
    /\ clover_devices = None
    /\ raised = "None"
    /\ NoCommand

GroupsInit ==
    /\ pc = "groups"
    /\ network_devices' = NetworkGroupStatus(all_probe_ping_sensors, site_pi_lte_dongle_sensor)
    /\ clover_devices' = CloverGroupStatus(all_probe_ping_sensors)
    /\ raised' = CloverRaised(CloverLoop(CloverGroupStatus_defaults, all_probe_ping_sensors))
    /\ pc' = "done"
    /\ UNCHANGED <<ping_sensor, probe_health_sensor, primary_interface_sensor,
                   site_pi_lte_dongle_sensor, all_probe_ping_sensors, probe_device>>
    /\ UNCHANGED command_vars

NextGroups == GroupsInit

SpecGroups == InitGroups /\ [][NextGroups]_vars

\* The counts and the status of a network group, and of a Clover group.
NetworkSummary(self) ==
    <<self.up_devices, self.warning_devices, self.paused_devices, self.down_devices,
      self.overall_status>>

CloverSummary(self) ==
    <<self.up_clovers, self.warning_clovers, self.paused_clovers, self.down_clovers,
      self.total_clovers, self.overall_status>>

Shuffled(sensors, f) == [i \in 1..Len(sensors) |-> sensors[f[i]]]

\* C10: for both group constructors, every permutation of the sensor list
\* gives the same up, warning, paused and down counts (and the same total
\* for the Clover group) and the same group status.
GroupsOrderIndependent ==
    pc = "done" =>
        \A f \in Permutations(1..Len(all_probe_ping_sensors)) :
            /\ NetworkSummary(NetworkGroupStatus(Shuffled(all_probe_ping_sensors, f),
                                                 site_pi_lte_dongle_sensor))
                  = NetworkSummary(network_devices)
            /\ CloverSummary(CloverGroupStatus(Shuffled(all_probe_ping_sensors, f)))
                  = CloverSummary(clover_devices)

\* A sweep with two sensors of the same role in different states, and a
\* Clover between them.
GroupsOrderIndependentWitness ==
    /\ pc = "done"
    /\ all_probe_ping_sensors = <<Sensor(NameMeraki, GroupNetwork, 3),
                                  Sensor(NameClover, GroupClover, 7),
                                  Sensor(NameMeraki, GroupNetwork, 5)>>
    /\ network_devices.up_devices = 1
    /\ network_devices.down_devices = 1
    /\ clover_devices.paused_clovers = 1

\* ---------------------------------------------------------------------------
\* The status command: commands/status.py, is_valid_argument and execute,
\* with the four PRTG lookups of services/prtg.py that execute awaits.
\* ---------------------------------------------------------------------------

VALID_ARGUMENT_COUNT == 3

Digits == {"0", "1", "2", "3", "4", "5", "6", "7", "8", "9"}

\* The characters str.strip() removes, as far as the inputs here have them.
Whitespace == {" ", "\t", "\n"}

RECURSIVE LStrip(_)
LStrip(s) == IF s # <<>> /\ Head(s) \in Whitespace THEN LStrip(Tail(s)) ELSE s

RECURSIVE RStrip(_)
RStrip(s) ==
    IF s # <<>> /\ s[Len(s)] \in Whitespace THEN RStrip(SubSeq(s, 1, Len(s) - 1)) ELSE s

\* str.strip()
Strip(s) == RStrip(LStrip(s))

\* THREE_DIGITS_REGEX.match(s) for re.compile('[0-9]{3}'): re.match anchors the
\* pattern at the start of the string and nowhere else.
THREE_DIGITS_REGEX_match(s) ==
    /\ Len(s) >= 3
    /\ \A i \in 1..3 : s[i] \in Digits

\* is_valid_argument of the status command: the error it sends, "None" when it
\* returns True.
StatusArgumentError(args) ==
    IF args = None THEN "Invalid arguments provided"
    ELSE IF Len(args) > VALID_ARGUMENT_COUNT THEN "Too many arguments"
    ELSE IF Len(args) < VALID_ARGUMENT_COUNT THEN "Too few arguments"
    ELSE IF ~THREE_DIGITS_REGEX_match(Strip(args[3]))
         THEN "Invalid site ID - Must be a valid 3-digit ID"
    ELSE "None"

\* slack.send_error(reason), slack.send_ack() and a report, as the payloads
\* handed to slack.send_message.
ErrorMessage(reason) == [kind |-> "error", text |-> reason]
AckMessage == [kind |-> "ack", text |-> "Processing request..."]

\* Exceptions: the class and the message.
NoError == [class |-> "None", message |-> ""]
Error(class, message) == [class |-> class, message |-> message]

\* The classes a class is an instance of (requests.exceptions and builtins).
Bases(class) ==
    CASE class = "ConnectionError" -> {"ConnectionError", "RequestException", "Exception"}
      [] class = "HTTPError"       -> {"HTTPError", "RequestException", "Exception"}
      [] class = "Timeout"         -> {"Timeout", "RequestException", "Exception"}
      [] class = "RequestException" -> {"RequestException", "Exception"}
      [] class = "ValueError"      -> {"ValueError", "Exception"}
      [] OTHER                     -> {class, "Exception"}

\* The state of one lookup running in its thread.
Running == [state |-> "running", result |-> None, error |-> NoError]
Returned(value) == [state |-> "returned", result |-> value, error |-> NoError]
Raised(error) == [state |-> "raised", result |-> None, error |-> error]

\* The awaitables of asyncio.gather, in the order execute passes them.
LookupOrder ==
    <<"get_all_pings", "get_probe_health", "get_primary_interface", "get_pi_lte_dongle">>

LookupNames == {LookupOrder[i] : i \in 1..Len(LookupOrder)}

\* What PRTG answers to one request: the request fails with an exception of
\* requests, or delivers JSON with a list of raw sensors.
RequestFails(class) == [error |-> Error(class, ""), sensors |-> <<>>]
Json(sensors) == [error |-> NoError, sensors |-> sensors]
RawSensor(device, group, status_raw) ==
    [device |-> device, group |-> group, status_raw |-> status_raw]

\* "raise ValueError(...)" of each lookup when PRTG lists no sensor.
NotFoundMessage(name) ==
    CASE name = "get_probe_health"      -> "Probe does not exist with site ID"
      [] name = "get_primary_interface" -> "Primary interface sensor not found at site"
      [] name = "get_pi_lte_dongle"     -> "Pi LTE dongle sensor not found at site"
      [] name = "get_all_pings"         -> "No ping sensors were found at site"

\* STATUS_MAP[status_raw] raises KeyError outside the keys 0..14.
InStatusMap(raw) == raw.status_raw \in StatusCodes

SensorOfRaw(raw) == Sensor(raw.device, raw.group, raw.status_raw)

\* Variant: get_pi_lte_dongle returns None when PRTG lists no dongle sensor.
Lookup_DongleOptional(name, response) ==
    IF response.error # NoError THEN Raised(response.error)
    ELSE IF Len(response.sensors) = 0
         THEN IF name = "get_pi_lte_dongle" THEN Returned(None)
              ELSE Raised(Error("ValueError", NotFoundMessage(name)))
    ELSE IF name = "get_all_pings"
         THEN IF \E i \in 1..Len(response.sensors) : ~InStatusMap(response.sensors[i])
              THEN Raised(Error("KeyError", ""))
              ELSE Returned([i \in 1..Len(response.sensors) |->
                                SensorOfRaw(response.sensors[i])])
    ELSE IF ~InStatusMap(response.sensors[1]) THEN Raised(Error("KeyError", ""))
    ELSE Returned(SensorOfRaw(response.sensors[1]))

\* get_probe_health, get_primary_interface, get_pi_lte_dongle and get_all_pings:
\* the outcome of the lookup for PRTG's answer.
Lookup(name, response) ==
    IF response.error # NoError THEN Raised(response.error)
    ELSE IF Len(response.sensors) = 0
         THEN Raised(Error("ValueError", NotFoundMessage(name)))
    ELSE IF name = "get_all_pings"
         THEN IF \E i \in 1..Len(response.sensors) : ~InStatusMap(response.sensors[i])
              THEN Raised(Error("KeyError", ""))
              ELSE Returned([i \in 1..Len(response.sensors) |->
                                SensorOfRaw(response.sensors[i])])
    ELSE IF ~InStatusMap(response.sensors[1]) THEN Raised(Error("KeyError", ""))
    ELSE Returned(SensorOfRaw(response.sensors[1]))

\* asyncio.gather without return_exceptions, seen when lookup n has just
\* completed: the first lookup to raise settles the gather with its exception,
\* whatever the others do later; when all have returned, the gather delivers
\* their results in the order of the awaitables.
Gather(before, ls, n) ==
    IF before # None THEN before
    ELSE IF ls[n].state = "raised" THEN [error |-> ls[n].error, results |-> <<>>]
    ELSE IF \A m \in DOMAIN ls : ls[m].state = "returned"
         THEN [error |-> NoError,
               results |-> [i \in 1..Len(LookupOrder) |-> ls[LookupOrder[i]].result]]
    ELSE None

\* Variant: the targets for the probe health and the primary interface results
\* are written in the other order.
Unpack_Swapped(results) ==
    [site_ping_sensors |-> results[1],
     site_probe_health_sensor |-> results[3],
     site_primary_interface_sensor |-> results[2],
     site_pi_lte_dongle_sensor |-> results[4]]

\* The assignment targets of "... = await asyncio.gather(...)".
Unpack(results) ==
    [site_ping_sensors |-> results[1],
     site_probe_health_sensor |-> results[2],
     site_primary_interface_sensor |-> results[3],
     site_pi_lte_dongle_sensor |-> results[4]]

\* The classes named by the except clauses of execute, in their order.
ExceptClauses ==
    <<"RequestException", "ConnectionError", "HTTPError", "Timeout", "ValueError",
      "Exception">>

\* Variant: the clauses end with ValueError, there is no "except Exception".
Handles_NoCatchAll(error) ==
    \E i \in 1..(Len(ExceptClauses) - 1) : ExceptClauses[i] \in Bases(error.class)

\* Some except clause of execute takes the exception.
Handles(error) ==
    \E i \in 1..Len(ExceptClauses) : ExceptClauses[i] \in Bases(error.class)

\* The first except clause that takes the exception.
ExceptClause(error) ==
    ExceptClauses[CHOOSE i \in 1..Len(ExceptClauses) :
                     /\ ExceptClauses[i] \in Bases(error.class)
                     /\ \A j \in 1..(i - 1) : ExceptClauses[j] \notin Bases(error.class)]

\* The reason that clause hands to slack.send_error.
ExceptMessage(error) ==
    CASE ExceptClause(error) = "RequestException" -> "An unexpected request error occurred"
      [] ExceptClause(error) = "ConnectionError"  ->
             "A connection could not be established to PRTG"
      [] ExceptClause(error) = "HTTPError"        -> "An HTTP error occurred"
      [] ExceptClause(error) = "Timeout"          -> "The request to PRTG took too long"
      [] ExceptClause(error) = "ValueError"       -> error.message
      [] ExceptClause(error) = "Exception"        -> "An unknown error occurred"

NoCloverHeader == "No Clover devices found for this probe"

\* format_output: the payload, or the AttributeError of reading
\* network_devices_group.name when the constructor never assigned it. The
\* three objects are always truthy, so the "if not ..." branches are not taken.
format_output(probe, network, clover) ==
    IF network.name = UnsetName
    THEN [raised |-> "AttributeError", payload |-> None]
    ELSE [raised |-> "None",
          payload |->
              [kind |-> "report",
               site_header |-> probe.probe_health_sensor.device_group,
               probe_status |-> probe.overall_status,
               failover |-> probe.primary_interface_description,
               network_header |-> network.name,
               network_status |-> network.overall_status,
               clover_header |-> IF clover.total_clovers = 0 THEN <<>> ELSE clover.name,
               clover_status |-> IF clover.total_clovers = 0
                                 THEN NoCloverHeader
                                 ELSE clover.overall_status]]

\* ---------------------------------------------------------------------------
\* Specification Spec: one execution of the status command, from the call of
\* execute (the acknowledgement has been posted by then) to its end, with the
\* four lookups completing in any order.
\* ---------------------------------------------------------------------------

Mention == <<"<", "@", "U", "1", ">">>
CommandStatus == <<"s", "t", "a", "t", "u", "s">>

\* The argument lists of the executions looked at: too few and too many
\* tokens, and site IDs of three digits, of fewer, of more, with letters,
\* and with surrounding blanks.
StatusArguments ==
    {<<Mention, CommandStatus>>,
     <<Mention, CommandStatus, <<"1", "2", "3">>, <<"n", "o", "w">>>>,
     <<Mention, CommandStatus, <<"1", "2", "3">>>>,
     <<Mention, CommandStatus, <<" ", "0", "1", "0", " ">>>>,
     <<Mention, CommandStatus, <<"1", "2">>>>,
     <<Mention, CommandStatus, <<"a", "b", "c">>>>,
     <<Mention, CommandStatus, <<"1", "2", "3", "4">>>>,
     <<Mention, CommandStatus, <<"1", "2", "3", "a", "b", "c">>>>}

\* PRTG's possible answers to each lookup: a failed request, no sensor, the
\* sensor in some state, and a status code that STATUS_MAP does not have.  The
\* ping sweeps include one with a sensor of each network role up, and sweeps
\* whose network device, or network device and Clover, are paused.
Responses(n) ==
    CASE n = "get_probe_health" ->
             {RequestFails("ConnectionError"), RequestFails("HTTPError"), Json(<<>>),
              Json(<<RawSensor(NameProbe, GroupStore, 3)>>),
              Json(<<RawSensor(NameProbe, GroupLteOnly, 3)>>),
              Json(<<RawSensor(NameProbe, GroupStore, 5)>>),
              Json(<<RawSensor(NameProbe, GroupStore, 15)>>)}
      [] n = "get_primary_interface" ->
             {RequestFails("Timeout"), Json(<<>>),
              Json(<<RawSensor(NameProbe, GroupStore, 3)>>),
              Json(<<RawSensor(NameProbe, GroupStore, 13)>>)}
      [] n = "get_pi_lte_dongle" ->
             {RequestFails("ConnectionError"), Json(<<>>),
              Json(<<RawSensor(NamePi, GroupDongle, 3)>>),
              Json(<<RawSensor(NamePi, GroupDongle, 5)>>)}
      [] n = "get_all_pings" ->
             {RequestFails("Timeout"), Json(<<>>),
              Json(<<RawSensor(NameClover, GroupClover, 3),
                     RawSensor(NameClover, GroupClover, 5)>>),
              Json(<<RawSensor(NameMeraki, GroupNetwork, 3),
                     RawSensor(NameRouter, GroupNetwork, 5),
                     RawSensor(NameClover, GroupClover, 3)>>),
              Json(<<RawSensor(NameMeraki, GroupNetwork, 3),
                     RawSensor(NameRouter, GroupNetwork, 3)>>),
              Json([i \in 1..7 |->
                       IF i <= 6 THEN RawSensor(RoleNames[i], GroupNetwork, 3)
                       ELSE RawSensor(NameClover, GroupClover, 3)]),
              Json(<<RawSensor(NameMeraki, GroupNetwork, 7),
                     RawSensor(NameClover, GroupClover, 3)>>),
              Json(<<RawSensor(NameMeraki, GroupNetwork, 7),
                     RawSensor(NameClover, GroupClover, 7)>>),
              Json(<<RawSensor(NameMeraki, GroupNetwork, 3),
                     RawSensor(NameClover, GroupClover, 15)>>)}

Init ==
    /\ pc = "execute"
    /\ arguments \in StatusArguments
    /\ lookups = <<>>
    /\ gathered = None
    /\ posted = <<AckMessage>>
    /\ class_attrs = ClassAttributes
    /\ requests = <<>>
    /\ ping_sensor = None
    /\ probe_health_sensor = None
    /\ primary_interface_sensor = None
    /\ site_pi_lte_dongle_sensor = None
    /\ all_probe_ping_sensors = None
    /\ probe_device = None
    /\ network_devices = None
    /\ clover_devices = None
    /\ raised = "None"

evaluator_vars ==
    <<ping_sensor, probe_health_sensor, primary_interface_sensor,
      site_pi_lte_dongle_sensor, all_probe_ping_sensors,
      probe_device, network_devices, clover_devices>>

\* execute up to its await: the validation, then the four lookups are handed
\* to asyncio.gather, each to run in a thread of its own.
StatusValidate ==
    /\ pc = "execute"
    /\ IF StatusArgumentError(arguments) # "None"
       THEN /\ posted' = Append(posted, ErrorMessage(StatusArgumentError(arguments)))
            /\ lookups' = lookups
            /\ pc' = "done"
       ELSE /\ posted' = posted
            /\ lookups' = [n \in LookupNames |-> Running]
            /\ pc' = "await"
    /\ UNCHANGED <<arguments, gathered, raised>>
    /\ UNCHANGED evaluator_vars
    /\ UNCHANGED request_vars

\* One lookup's thread finishes, whenever it does: also after execute has
\* ended on another lookup's exception.
LookupCompletes(n) ==
    /\ n \in DOMAIN lookups
    /\ lookups[n].state = "running"
    /\ \E response \in Responses(n) :
           lookups' = [lookups EXCEPT ![n] = Lookup(n, response)]
    /\ gathered' = Gather(gathered, lookups', n)
    /\ UNCHANGED <<pc, arguments, posted, raised>>
    /\ UNCHANGED evaluator_vars
    /\ UNCHANGED request_vars

\* execute from its await to its end: the except clause that takes the
\* gather's exception, or the evaluators, the normalisation, format_output and
\* the report.
StatusResume ==
    /\ pc = "await"
    /\ gathered # None
    /\ pc' = "done"
    /\ IF gathered.error # NoError
       THEN /\ IF Handles(gathered.error)
               THEN /\ posted' = Append(posted, ErrorMessage(ExceptMessage(gathered.error)))
                    /\ raised' = "None"
               ELSE /\ posted' = posted
                    /\ raised' = gathered.error.class
            /\ UNCHANGED evaluator_vars
       ELSE LET site == Unpack(gathered.results)
                probe == ProbeDeviceStatus(site.site_probe_health_sensor,
                                           site.site_primary_interface_sensor)
                network == NetworkGroupStatus(site.site_ping_sensors,
                                              site.site_pi_lte_dongle_sensor)
                clover == CloverGroupStatus(site.site_ping_sensors)
                output == format_output(
                              normalize_overall_site_status(probe, network, clover),
                              network, clover)
            IN  /\ all_probe_ping_sensors' = site.site_ping_sensors
                /\ probe_health_sensor' = site.site_probe_health_sensor
                /\ primary_interface_sensor' = site.site_primary_interface_sensor
                /\ site_pi_lte_dongle_sensor' = site.site_pi_lte_dongle_sensor
                /\ probe_device' = normalize_overall_site_status(probe, network, clover)
                /\ network_devices' = network
                /\ clover_devices' = clover
                /\ raised' = output.raised
                /\ posted' = IF output.raised = "None"
                             THEN Append(posted, output.payload)
                             ELSE posted
                /\ UNCHANGED ping_sensor
    /\ UNCHANGED <<arguments, lookups, gathered>>
    /\ UNCHANGED request_vars

Next ==
    \/ StatusValidate
    \/ \E n \in LookupNames : LookupCompletes(n)
    \/ StatusResume

Spec == Init /\ [][Next]_vars

\* The messages execute has posted after the acknowledgement.
FinalMessages == SubSeq(posted, 2, Len(posted))

\* C11: every execution of the status command ends having posted exactly one
\* final message after the acknowledgement, a complete status report or an
\* error message, also when the ping sweep has no sensor of the network group
\* or none of the Clover group.
StatusOneFinalMessage ==
    pc = "done" =>
        /\ Len(FinalMessages) = 1
        /\ FinalMessages[1].kind \in {"report", "error"}

\* C12: once any of the four lookups has failed, in whatever order they
\* complete, no report is posted and no evaluator runs, and the execution ends
\* with exactly one error message.
StatusFailureOneError ==
    (\E n \in DOMAIN lookups : lookups[n].state = "raised") =>
        /\ \A i \in 1..Len(posted) : posted[i].kind # "report"
        /\ probe_device = None
        /\ network_devices = None
        /\ clover_devices = None
        /\ pc = "done" => /\ Len(FinalMessages) = 1
                          /\ FinalMessages[1].kind = "error"

\* Two lookups have failed, the dongle's first, one has succeeded, and the
\* execution has ended with its error message.
StatusFailureOneErrorWitness ==
    /\ pc = "done"
    /\ DOMAIN lookups = LookupNames
    /\ lookups["get_pi_lte_dongle"].state = "raised"
    /\ lookups["get_probe_health"].state = "raised"
    /\ lookups["get_all_pings"].state = "returned"
    /\ gathered.error = lookups["get_pi_lte_dongle"].error
    /\ gathered.error # lookups["get_probe_health"].error
    /\ Len(FinalMessages) = 1
    /\ FinalMessages[1].kind = "error"

\* A string of exactly three ASCII digits.
ExactlyThreeDigits(s) == Len(s) = 3 /\ \A i \in 1..3 : s[i] \in Digits

\* The arguments C13 lets through.
ThreeArgumentsThreeDigits ==
    /\ Len(arguments) = 3
    /\ ExactlyThreeDigits(Strip(arguments[3]))

\* C13: the status command issues lookups only for exactly 3 arguments with a
\* third of exactly 3 digits after trimming; for any other input it posts
\* exactly one error message and issues no lookup.
StatusLookupsOnlyForThreeDigits ==
    /\ lookups # <<>> => ThreeArgumentsThreeDigits
    /\ (pc # "execute" /\ ~ThreeArgumentsThreeDigits) =>
           /\ lookups = <<>>
           /\ Len(FinalMessages) = 1
           /\ FinalMessages[1].kind = "error"

\* C20: the evaluators have run only when all four lookups have returned, and
\* then the probe evaluator got the results of the probe health and primary
\* interface lookups, the network evaluator those of the ping sweep and the
\* dongle lookup, and the Clover evaluator that of the ping sweep.
StatusEvaluatorsOwnLookups ==
    (probe_device # None \/ network_devices # None \/ clover_devices # None) =>
        /\ DOMAIN lookups = LookupNames
        /\ \A n \in LookupNames : lookups[n].state = "returned"
        /\ probe_health_sensor = lookups["get_probe_health"].result
        /\ primary_interface_sensor = lookups["get_primary_interface"].result
        /\ site_pi_lte_dongle_sensor = lookups["get_pi_lte_dongle"].result
        /\ all_probe_ping_sensors = lookups["get_all_pings"].result
        /\ network_devices = NetworkGroupStatus(lookups["get_all_pings"].result,
                                                lookups["get_pi_lte_dongle"].result)
        /\ clover_devices = CloverGroupStatus(lookups["get_all_pings"].result)
        /\ probe_device =
               normalize_overall_site_status(
                   ProbeDeviceStatus(lookups["get_probe_health"].result,
                                     lookups["get_primary_interface"].result),
                   network_devices, clover_devices)

\* The evaluators have run on a probe health result and a primary interface
\* result that differ, and the report is posted.
StatusEvaluatorsOwnLookupsWitness ==
    /\ pc = "done"
    /\ probe_device # None
    /\ lookups["get_probe_health"].result.status_int = 5
    /\ lookups["get_primary_interface"].result.status_int = 3
    /\ probe_device.overall_status = "CRITICAL"
    /\ Len(FinalMessages) = 1
    /\ FinalMessages[1].kind = "report"

\* ---------------------------------------------------------------------------
\* The wifi command: commands/wifi.py, is_valid_argument and execute, with the
\* two Meraki lookups of services/meraki.py.
\* ---------------------------------------------------------------------------

HexLower == Digits \cup {"a", "b", "c", "d", "e", "f"}

\* MAC_ADDRESS_REGEX.match(s) for re.compile('([0-9a-f]{2}:){5}[0-9a-f]{2}'):
\* seventeen characters from the start of the string, every third a colon;
\* re.match does not look at what follows them.
MAC_ADDRESS_REGEX_match(s) ==
    /\ Len(s) >= 17
    /\ \A i \in 1..17 : IF i % 3 = 0 THEN s[i] = ":" ELSE s[i] \in HexLower

\* "arguments[2].strip().lower()"
WifiMacAddress(args) == Lower(Strip(args[3]))

\* is_valid_argument of the wifi command: the error it sends, "None" when it
\* returns True.
WifiArgumentError(args) ==
    IF args = None THEN "Invalid arguments provided"
    ELSE IF Len(args) > VALID_ARGUMENT_COUNT THEN "Too many arguments"
    ELSE IF Len(args) < VALID_ARGUMENT_COUNT THEN "Too few arguments"
    ELSE IF ~MAC_ADDRESS_REGEX_match(WifiMacAddress(args))
         THEN "Invalid MAC address - Must be a valid 12-digit MAC address with semi-colons (:)"
    ELSE "None"

\* What Meraki answers to getNetworkClient: an APIError with its HTTP status,
\* or the client in one of its states.
ClientStatus(raw_status) ==
    IF raw_status = "Online" THEN "ONLINE"
    ELSE IF raw_status = "Offline" THEN "OFFLINE"
    ELSE "UNKNOWN"

MerakiAPIError(status) == [class |-> "MerakiAPIError", message |-> status]

get_client(mac_address, response) ==
    IF response.error # NoError THEN Raised(response.error)
    ELSE Returned([mac_address |-> response.mac, status |-> ClientStatus(response.status)])

get_client_site(response) ==
    IF response.error # NoError THEN Raised(response.error) ELSE Returned(response.name)

\* The except clause of the wifi command's execute.
WifiExceptMessage(error) ==
    IF error.message = "404" THEN "Could not find Clover with MAC address"
    ELSE "An API error occurred while getting the client's status with MAC address"

\* format_output of the wifi command.
WifiFormatOutput(meraki_client, site_name) ==
    [kind |-> "report",
     status |-> meraki_client.status,
     site |-> IF site_name = "" THEN "?" ELSE site_name,
     mac_address |-> meraki_client.mac_address]

\* ---------------------------------------------------------------------------
\* Specification SpecWifi: one execution of the wifi command.
\* ---------------------------------------------------------------------------

CommandWifi == <<"w", "i", "f", "i">>

MacLower == <<"a", "a", ":", "b", "b", ":", "c", "c", ":", "d", "d", ":", "e", "e", ":", "0", "f">>
MacUpper == <<"A", "A", ":", "B", "B", ":", "C", "C", ":", "D", "D", ":", "E", "E", ":", "0", "F">>
MacMixed == <<"a", "A", ":", "B", "b", ":", "c", "c", ":", "d", "d", ":", "e", "e", ":", "0", "F">>
MacOther == <<"0", "0", ":", "1", "1", ":", "2", "2", ":", "3", "3", ":", "4", "4", ":", "5", "5">>
MacHyphenLower == <<"a", "a", "-", "b", "b", "-", "c", "c", "-", "d", "d", "-", "e", "e", "-", "0", "f">>
MacHyphenUpper == <<"A", "A", "-", "B", "B", "-", "C", "C", "-", "D", "D", "-", "E", "E", "-", "0", "F">>
MacTrailing == <<"a", "a", ":", "b", "b", ":", "c", "c", ":", "d", "d", ":", "e", "e", ":", "0", "f", "z", "z">>
MacSeventh == <<"a", "a", ":", "b", "b", ":", "c", "c", ":", "d", "d", ":", "e", "e", ":", "0", "f", ":", "1", "1">>
MacShort == <<"a", "a", ":", "b", "b", ":", "c", "c", ":", "d", "d", ":", "e", "e", ":", "0">>
MacNotHex == <<"g", "g", ":", "b", "b", ":", "c", "c", ":", "d", "d", ":", "e", "e", ":", "0", "f">>
MacBare == <<"a", "a", "b", "b", "c", "c", "d", "d", "e", "e", "0", "f">>
MacLeading == <<"x", "a", "a", ":", "b", "b", ":", "c", "c", ":", "d", "d", ":", "e", "e", ":", "0", "f">>
MacBlanks == <<" ", "a", "a", ":", "b", "b", ":", "c", "c", ":", "d", "d", ":", "e", "e", ":", "0", "f", " ">>

\* The argument lists looked at: too few and too many tokens, and addresses
\* in lower, upper and mixed case, with hyphens, with characters after or
\* before them, too short, not hexadecimal, and without separators.
WifiArguments ==
    {<<Mention, CommandWifi>>, <<Mention, CommandWifi, MacLower, MacOther>>}
    \cup {<<Mention, CommandWifi, mac>> : mac \in
             {MacLower, MacUpper, MacMixed, MacOther, MacHyphenLower, MacHyphenUpper, MacTrailing,
              MacSeventh, MacShort, MacNotHex, MacBare, MacLeading, MacBlanks}}

ClientResponses(mac_address) ==
    {[error |-> MerakiAPIError("404"), mac |-> <<>>, status |-> ""],
     [error |-> MerakiAPIError("500"), mac |-> <<>>, status |-> ""],
     [error |-> NoError, mac |-> mac_address, status |-> "Online"],
     [error |-> NoError, mac |-> mac_address, status |-> "Offline"],
     [error |-> NoError, mac |-> mac_address, status |-> "Dormant"]}

SiteResponses ==
    {[error |-> MerakiAPIError("500"), name |-> ""],
     [error |-> NoError, name |-> ""],
     [error |-> NoError, name |-> "010 Store AP"]}

InitWifi ==
    /\ pc = "execute"
    /\ arguments \in WifiArguments
    /\ lookups = <<>>
    /\ gathered = None
    /\ posted = <<AckMessage>>
    /\ class_attrs = ClassAttributes
    /\ requests = <<>>
    /\ ping_sensor = None
    /\ probe_health_sensor = None
    /\ primary_interface_sensor = None
    /\ site_pi_lte_dongle_sensor = None
    /\ all_probe_ping_sensors = None
    /\ probe_device = None
    /\ network_devices = None
    /\ clover_devices = None
    /\ raised = "None"

\* execute up to the call of meraki.get_client.
WifiValidate ==
    /\ pc = "execute"
    /\ IF WifiArgumentError(arguments) # "None"
       THEN /\ posted' = Append(posted, ErrorMessage(WifiArgumentError(arguments)))
            /\ lookups' = lookups
            /\ pc' = "done"
       ELSE /\ posted' = posted
            /\ lookups' = [n \in {"get_client"} |-> Running]
            /\ pc' = "get_client"
    /\ UNCHANGED <<arguments, gathered, raised>>
    /\ UNCHANGED evaluator_vars
    /\ UNCHANGED request_vars

\* meraki.get_client returns or raises; on an APIError the except clause sends
\* its error and execute returns, otherwise meraki.get_client_site is called.
WifiGetClient ==
    /\ pc = "get_client"
    /\ \E response \in ClientResponses(WifiMacAddress(arguments)) :
         LET outcome == get_client(WifiMacAddress(arguments), response)
         IN  IF outcome.state = "raised"
             THEN /\ lookups' = [lookups EXCEPT !["get_client"] = outcome]
                  /\ posted' = Append(posted, ErrorMessage(WifiExceptMessage(outcome.error)))
                  /\ pc' = "done"
             ELSE /\ lookups' = [n \in {"get_client", "get_client_site"} |->
                                    IF n = "get_client" THEN outcome ELSE Running]
                  /\ posted' = posted
                  /\ pc' = "get_client_site"
    /\ UNCHANGED <<arguments, gathered, raised>>
    /\ UNCHANGED evaluator_vars
    /\ UNCHANGED request_vars

\* meraki.get_client_site returns or raises, and execute runs to its end.
WifiGetClientSite ==
    /\ pc = "get_client_site"
    /\ \E response \in SiteResponses :
         LET outcome == get_client_site(response)
         IN  /\ lookups' = [lookups EXCEPT !["get_client_site"] = outcome]
             /\ posted' = Append(posted,
                    IF outcome.state = "raised"
                    THEN ErrorMessage(WifiExceptMessage(outcome.error))
                    ELSE WifiFormatOutput(lookups["get_client"].result, outcome.result))
    /\ pc' = "done"
    /\ UNCHANGED <<arguments, gathered, raised>>
    /\ UNCHANGED evaluator_vars
    /\ UNCHANGED request_vars

NextWifi ==
    \/ WifiValidate
    \/ WifiGetClient
    \/ WifiGetClientSite

SpecWifi == InitWifi /\ [][NextWifi]_vars

RECURSIVE HyphensToColons(_)
\* The address with every hyphen replaced by a colon.
HyphensToColons(s) ==
    IF s = <<>> THEN <<>>
    ELSE <<IF Head(s) = "-" THEN ":" ELSE Head(s)>> \o HyphensToColons(Tail(s))

\* A string of exactly 6 colon-separated pairs of lowercase hex digits.
ExactlySixPairs(s) ==
    /\ Len(s) = 17
    /\ \A i \in 1..17 : IF i % 3 = 0 THEN s[i] = ":" ELSE s[i] \in HexLower

\* The arguments C14 lets through.
ThreeArgumentsNormalizedAddress ==
    /\ Len(arguments) = 3
    /\ ExactlySixPairs(HyphensToColons(Lower(Strip(arguments[3]))))

\* C14: the wifi command accepts its address argument exactly when, with
\* hyphens turned into colons and letters into lowercase, it is 6
\* colon-separated hex pairs; any other argument gets one error message and
\* no Meraki lookup.
WifiAcceptsNormalizedAddress ==
    pc # "execute" =>
        IF ThreeArgumentsNormalizedAddress
        THEN lookups # <<>>
        ELSE /\ lookups = <<>>
             /\ Len(FinalMessages) = 1
             /\ FinalMessages[1].kind = "error"

\* ---------------------------------------------------------------------------
\* Specification SpecUnknownCode: one evaluator is constructed on sensor
\* records whose status code is not a key of STATUS_MAP.
\* ---------------------------------------------------------------------------

\* Status codes outside 0..14: negative, and 15 and above.
UnknownCodes == {-2, -1, 15, 16, 255}

\* The sensors of the sweeps: sensors with the unknown code and sensors that
\* are up, of the network group and of the Clover group.
UnknownSweepSensors(code) ==
    {Sensor(NameMeraki, GroupNetwork, code), Sensor(NameRouter, GroupNetwork, 3),
     Sensor(NameClover, GroupClover, code), Sensor(NameClover, GroupClover, 3)}

InitUnknownCode ==
    /\ pc \in {"probe", "network", "clover"}
    /\ ping_sensor \in {Sensor(NameMeraki, GroupNetwork, c) : c \in UnknownCodes}
    /\ probe_health_sensor \in
           {Sensor(NameProbe, g, ping_sensor.status_int) : g \in {GroupStore, GroupLteOnly}}
    /\ primary_interface_sensor \in
           {Sensor(NameProbe, GroupStore, c) : c \in {3, ping_sensor.status_int}}
    /\ site_pi_lte_dongle_sensor \in
           {Sensor(NamePi, GroupDongle, c) : c \in {3, ping_sensor.status_int}}
    /\ all_probe_ping_sensors \in
           UNION {[1..n -> UnknownSweepSensors(ping_sensor.status_int)] : n \in 0..MaxListLen}
    /\ probe_device = None
    /\ network_devices = None
    /\ clover_devices = None
    /\ raised = "None"
    /\ NoCommand

NextUnknownCode == ProbeInit \/ NetworkInit \/ CloverInit

SpecUnknownCode == InitUnknownCode /\ [][NextUnknownCode]_vars

\* The number of sensors of a group in the sweep whose code is in a set.
SweepCount(group, codes) ==
    Cardinality({i \in 1..Len(all_probe_ping_sensors) :
                    /\ all_probe_ping_sensors[i].device_group = group
                    /\ all_probe_ping_sensors[i].status_int \in codes})

\* C15: on sensor records with a status code outside 0..14 no evaluator
\* raises an error; the probe evaluator returns Critical, and the network and
\* Clover evaluators count each such sensor of the sweep as down.
UnknownCodeIsDown ==
    pc = "done" =>
        /\ raised = "None"
        /\ ping_sensor.status_int \notin StatusCodes
        /\ probe_device # None => probe_device.overall_status = "CRITICAL"
        /\ network_devices # None =>
               /\ network_devices.down_devices = SweepCount(GroupNetwork, UnknownCodes)
               /\ network_devices.warning_devices = 0
               /\ network_devices.paused_devices = 0
               /\ network_devices.overall_status \in OverallStatus
        /\ clover_devices # None =>
               /\ clover_devices.down_clovers = SweepCount(GroupClover, UnknownCodes)
               /\ clover_devices.warning_clovers = 0
               /\ clover_devices.paused_clovers = 0
               /\ clover_devices.total_clovers = SweepCount(GroupClover, UnknownCodes \cup {3})

\* The network evaluator has counted two sensors with a negative code as
\* down, next to a dongle with that code.
UnknownCodeIsDownWitness ==
    /\ pc = "done"
    /\ network_devices # None
    /\ ping_sensor.status_int = -1
    /\ site_pi_lte_dongle_sensor.status_int = -1
    /\ network_devices.down_devices = 2

\* ---------------------------------------------------------------------------
\* Specification SpecEvaluations: status requests follow and overtake one
\* another; each one, when its lookups are joined, constructs its network
\* group and its Clover group (execute, status.py 670-671). The event loop
\* runs one execute at a time between awaits, so a request's two
\* constructions are one step.
\* ---------------------------------------------------------------------------

\* The constructor of NetworkGroupStatus on a new instance: an attribute the
\* instance has not assigned yet is read from the class attributes cls.
NetworkGroupStatusOn(cls, sensors, dongle_sensor) ==
    NetworkDecide(NetworkLoop(NetworkAddDongle(cls, dongle_sensor), sensors))

\* The same for CloverGroupStatus.
CloverGroupStatusOn(cls, sensors) == CloverDecide(CloverLoop(cls, sensors))

\* Variant: the augmented assignments and the role assignments bind the
\* attributes of the class.
ClassAttributesAfter_Shared(cls, network, clover) ==
    [NetworkGroupStatus |->
         [cls.NetworkGroupStatus EXCEPT
             !.up_devices = network.up_devices,
             !.warning_devices = network.warning_devices,
             !.paused_devices = network.paused_devices,
             !.down_devices = network.down_devices,
             !.meraki_device = network.meraki_device,
             !.router = network.router],
     CloverGroupStatus |->
         [cls.CloverGroupStatus EXCEPT
             !.up_clovers = clover.up_clovers,
             !.down_clovers = clover.down_clovers,
             !.total_clovers = clover.total_clovers]]

\* The class attributes after the two constructors have run: every assignment
\* in them has the target self.<attribute>, and "self.x += 1" reads the class
\* attribute and binds an attribute of the instance, so the classes stay as
\* they are.
ClassAttributesAfter(cls, network, clover) == cls

RequestIds == 1..MaxRequests

IdleRequest ==
    [pc |-> "idle", sweep |-> <<>>, dongle |-> None, network |-> None, clover |-> None]

\* The joined lookup results a request evaluates.
EvaluationSweeps ==
    {<<Sensor(NameMeraki, GroupNetwork, 3)>>,
     <<Sensor(NameMeraki, GroupNetwork, 3), Sensor(NameRouter, GroupNetwork, 4),
       Sensor(NameClover, GroupClover, 3)>>,
     <<Sensor(NameClover, GroupClover, 3), Sensor(NameClover, GroupClover, 5)>>,
     <<Sensor(NamePi, GroupNetwork, 5), Sensor(NameClover, GroupClover, 7)>>}

EvaluationDongles == {Sensor(NamePi, GroupDongle, 3), Sensor(NamePi, GroupDongle, 5)}

InitEvaluations ==
    /\ pc = "serving"
    /\ requests = [r \in RequestIds |-> IdleRequest]
    /\ class_attrs = ClassAttributes
    /\ arguments = None
    /\ lookups = <<>>
    /\ gathered = None
    /\ posted = <<>>
    /\ ping_sensor = None
    /\ probe_health_sensor = None
    /\ primary_interface_sensor = None
    /\ site_pi_lte_dongle_sensor = None
    /\ all_probe_ping_sensors = None
    /\ probe_device = None
    /\ network_devices = None
    /\ clover_devices = None
    /\ raised = "None"

\* A request's lookups have been joined: its execute is ready to evaluate.
\* The slot of a finished request is taken by the next one.
EvaluationJoined(r) ==
    /\ requests[r].pc \in {"idle", "done"}
    /\ \E sweep \in EvaluationSweeps, dongle \in EvaluationDongles :
           requests' = [requests EXCEPT ![r] =
                           [pc |-> "joined", sweep |-> sweep, dongle |-> dongle,
                            network |-> None, clover |-> None]]
    /\ UNCHANGED <<pc, class_attrs, arguments, lookups, gathered, posted, raised>>
    /\ UNCHANGED evaluator_vars

\* The request constructs its two groups.
EvaluationRuns(r) ==
    /\ requests[r].pc = "joined"
    /\ network_devices' = NetworkGroupStatusOn(class_attrs.NetworkGroupStatus,
                                               requests[r].sweep, requests[r].dongle)
    /\ clover_devices' = CloverGroupStatusOn(class_attrs.CloverGroupStatus,
                                             requests[r].sweep)
    /\ requests' = [requests EXCEPT ![r].pc = "done",
                                    ![r].network = network_devices',
                                    ![r].clover = clover_devices']
    /\ class_attrs' = ClassAttributesAfter(class_attrs, network_devices', clover_devices')
    /\ UNCHANGED <<pc, arguments, lookups, gathered, posted, raised>>
    /\ UNCHANGED <<ping_sensor, probe_health_sensor, primary_interface_sensor,
                   site_pi_lte_dongle_sensor, all_probe_ping_sensors, probe_device>>

NextEvaluations ==
    \/ \E r \in RequestIds : EvaluationJoined(r)
    \/ \E r \in RequestIds : EvaluationRuns(r)

SpecEvaluations == InitEvaluations /\ [][NextEvaluations]_vars

\* What the two constructors make of each input when nothing has been
\* evaluated before.
EvaluatedAlone ==
    [sweep \in EvaluationSweeps, dongle \in EvaluationDongles |->
        [network |-> NetworkGroupStatus(sweep, dongle),
         clover |-> CloverGroupStatus(sweep)]]

\* C16: whatever evaluations came before, a network or Clover evaluation
\* starts from counters 0 and empty role slots, its counts and status are
\* those of its own sensors alone, and no evaluation changes the class
\* attributes that later evaluations start from.
EvaluationsIndependent ==
    /\ class_attrs = ClassAttributes
    /\ \A a \in {"up_devices", "warning_devices", "paused_devices", "down_devices"} :
           class_attrs.NetworkGroupStatus[a] = 0
    /\ \A a \in {"pi_lte_dongle", "meraki_device", "router", "pdu", "vitupay_com",
                 "pi_device", "clover_com"} :
           class_attrs.NetworkGroupStatus[a] = None
    /\ \A a \in {"up_clovers", "warning_clovers", "paused_clovers", "down_clovers",
                 "total_clovers"} :
           class_attrs.CloverGroupStatus[a] = 0
    /\ \A r \in DOMAIN requests :
           requests[r].pc = "done" =>
               /\ requests[r].network =
                      EvaluatedAlone[requests[r].sweep, requests[r].dongle].network
               /\ requests[r].clover =
                      EvaluatedAlone[requests[r].sweep, requests[r].dongle].clover

\* Two requests have evaluated: one counted two devices up and filled the
\* Meraki slot, the other counted no network device and two Clovers.
EvaluationsIndependentWitness ==
    /\ DOMAIN requests = RequestIds
    /\ requests[1].pc = "done"
    /\ requests[2].pc = "done"
    /\ requests[1].network.up_devices = 2
    /\ requests[1].network.meraki_device # None
    /\ requests[2].network.up_devices = 0
    /\ requests[2].network.meraki_device = None
    /\ requests[2].clover.total_clovers = 2

\* ---------------------------------------------------------------------------
\* The server: vitubot.py, the /slack/event endpoint and the task it schedules.
\* ---------------------------------------------------------------------------

RECURSIVE SplitFrom(_, _, _)
\* str.split() without a separator: the runs of characters between runs of
\* whitespace; word is the run being read, words the runs read so far.
SplitFrom(s, word, words) ==
    IF s = <<>> THEN (IF word = <<>> THEN words ELSE Append(words, word))
    ELSE IF Head(s) \in Whitespace
         THEN SplitFrom(Tail(s), <<>>, IF word = <<>> THEN words ELSE Append(words, word))
    ELSE SplitFrom(Tail(s), Append(word, Head(s)), words)

Split(s) == SplitFrom(s, <<>>, <<>>)

\* os.getenv('SLACK_APP_TOKEN'), as configured.
VITUBOT_SLACK_APP_TOKEN == "app-token"

\* A token with a character outside ASCII (written with its escape).
NonAsciiToken == "t\\u00f8ken"

IsAscii(s) == s # NonAsciiToken

\* A payload is a JSON object: a function from the keys it has to values.
\* payload.get(key) is falsy when the key is absent or its value is "".
Falsy(payload, key) == key \notin DOMAIN payload \/ payload[key] = ""

is_valid_payload(payload) ==
    IF DOMAIN payload = {} THEN FALSE
    ELSE IF Falsy(payload, "type") THEN FALSE
    ELSE IF Falsy(payload, "token") THEN FALSE
    ELSE TRUE

\* secrets.compare_digest(a, b) on two str: it raises TypeError unless both
\* are ASCII, otherwise it tells whether they are equal.
compare_digest(a, b) ==
    IF ~IsAscii(a) \/ ~IsAscii(b) THEN "TypeError"
    ELSE IF a = b THEN "True" ELSE "False"

is_authorized(provided_api_key) ==
    compare_digest(provided_api_key, VITUBOT_SLACK_APP_TOKEN)

\* What the endpoint does with a request: the HTTP status and body it answers
\* with, and whether it has added execute_vitubot_task to the background
\* tasks. An exception that is not an HTTPException leaves the handler and
\* the framework answers 500.
Answer(status, body, scheduled) == [status |-> status, body |-> body, scheduled |-> scheduled]

\* The endpoint function vitubot.
vitubot(payload) ==
    IF ~is_valid_payload(payload) THEN Answer(400, "Invalid payload received", FALSE)
    ELSE IF is_authorized(payload.token) = "TypeError" THEN Answer(500, "TypeError", FALSE)
    ELSE IF is_authorized(payload.token) = "False" THEN Answer(401, "Invalid token", FALSE)
    ELSE IF payload.type = "url_verification"
         THEN IF "challenge" \notin DOMAIN payload
              THEN Answer(500, "ValidationError", FALSE)
              ELSE Answer(200, payload.challenge, FALSE)
    ELSE IF payload.type # "event_callback"
         THEN Answer(400, "Unsupported event type received", FALSE)
    ELSE Answer(200, "", TRUE)

\* The values of VituBotCommand.
CommandClovers == <<"c", "l", "o", "v", "e", "r", "s">>
CommandHelp == <<"h", "e", "l", "p">>

\* What a run of task code up to its next await or its end leaves: the
\* handlers it has called, the events it has caused in their order ("ack",
\* "dispatch", "lookup", "post"), where the task stands, and the exception
\* that ended it.
Ran(handlers, events, at, exception) ==
    [handlers |-> handlers, events |-> events, pc |-> at, raised |-> exception]

\* help.execute: it posts the help text.
HelpRuns == Ran(<<"help">>, <<"dispatch", "post">>, "finished", "None")

\* clovers.execute: it posts an error for a wrong number of arguments;
\* otherwise is_valid_argument reads StatusFunctions.SITE_ID_REGEX, which
\* commands/status.py does not define, and the AttributeError ends the task.
CloversRuns(args) ==
    IF Len(args) # VALID_ARGUMENT_COUNT
    THEN Ran(<<"clovers">>, <<"dispatch", "post">>, "finished", "None")
    ELSE Ran(<<"clovers">>, <<"dispatch">>, "finished", "AttributeError")

\* wifi.execute, which does not await: an error for bad arguments, or one or
\* both Meraki lookups (found tells whether get_client returned) and then
\* the report or an error.
WifiRuns(args, found) ==
    IF WifiArgumentError(args) # "None"
    THEN Ran(<<"wifi">>, <<"dispatch", "post">>, "finished", "None")
    ELSE IF found
         THEN Ran(<<"wifi">>, <<"dispatch", "lookup", "lookup", "post">>, "finished", "None")
    ELSE Ran(<<"wifi">>, <<"dispatch", "lookup", "post">>, "finished", "None")

\* status.execute up to its await: an error for bad arguments, or the four
\* lookups handed to asyncio.gather.
StatusRuns(args) ==
    IF StatusArgumentError(args) # "None"
    THEN Ran(<<"status">>, <<"dispatch", "post">>, "finished", "None")
    ELSE Ran(<<"status">>, <<"dispatch", "lookup", "lookup", "lookup", "lookup">>,
             "awaiting", "None")

\* The dispatch of execute_vitubot_task: the text is split, then the handler
\* is chosen. command_args[1] raises IndexError when the text has no token.
Dispatch(text, found) ==
    LET command_args == Split(text)
    IN  IF Len(command_args) = 1 THEN HelpRuns
        ELSE IF Len(command_args) < 2 THEN Ran(<<>>, <<>>, "finished", "IndexError")
        ELSE LET command == Lower(command_args[2])
             IN  IF command = CommandClovers THEN CloversRuns(command_args)
                 ELSE IF command = CommandHelp THEN HelpRuns
                 ELSE IF command = CommandStatus THEN StatusRuns(command_args)
                 ELSE IF command = CommandWifi THEN WifiRuns(command_args, found)
                 ELSE HelpRuns

\* Variant: the acknowledgement is sent when the handler has returned or
\* awaits.
execute_vitubot_task_AckLast(payload, found) ==
    IF "event" \notin DOMAIN payload
    THEN Ran(<<>>, <<"ack">>, "finished", "ValidationError")
    ELSE [Dispatch(payload.event.text, found) EXCEPT !.events = @ \o <<"ack">>]

\* execute_vitubot_task up to its first await or its end: send_ack, then
\* EventCallback(**payload), which raises a ValidationError for a payload
\* without an event, then the dispatch.
execute_vitubot_task(payload, found) ==
    IF "event" \notin DOMAIN payload
    THEN Ran(<<>>, <<"ack">>, "finished", "ValidationError")
    ELSE [Dispatch(payload.event.text, found) EXCEPT !.events = <<"ack">> \o @]

TextEmpty == <<>>
TextBlank == <<" ">>
TextMention == <<"<", "@", "U", "1", ">">>
TextHelp == <<"<", "@", "U", "1", ">", " ", "h", "e", "l", "p">>
TextStatus == <<"<", "@", "U", "1", ">", " ", " ", "S", "T", "A", "T", "U", "S", " ", "1", "2", "3">>
TextStatusBad == <<"<", "@", "U", "1", ">", " ", "s", "t", "a", "t", "u", "s", " ", "1", "2">>
TextWifi == <<"<", "@", "U", "1", ">", " ", "W", "i", "f", "i", " ", "a", "a", ":", "b", "b", ":", "c", "c", ":", "d", "d", ":", "e", "e", ":", "0", "f">>
TextClovers == <<"<", "@", "U", "1", ">", " ", "c", "l", "o", "v", "e", "r", "s">>
TextUnknown == <<"<", "@", "U", "1", ">", " ", "r", "e", "b", "o", "o", "t", " ", "1", "2", "3">>

\* The texts of the event callbacks looked at: no token, the mention alone,
\* each command in some case and spacing, and an unknown command.
EventTexts ==
    {TextEmpty, TextBlank, TextMention, TextHelp, TextStatus,
     TextStatusBad, TextWifi, TextClovers, TextUnknown}

\* ---------------------------------------------------------------------------
\* Specification SpecServer: MaxRequests requests arrive at /slack/event. The
\* endpoint answers each; a scheduled task runs after its response, on the
\* event loop, so a task runs alone from one await to the next, and the tasks
\* of two requests interleave at the await of the status command.
\* ---------------------------------------------------------------------------

\* Authorized event callbacks, with each text and without an event.
AuthorizedCallbacks ==
    {[type |-> "event_callback", token |-> VITUBOT_SLACK_APP_TOKEN, event |-> [text |-> text]] :
        text \in EventTexts}
    \cup {[type |-> "event_callback", token |-> VITUBOT_SLACK_APP_TOKEN]}

\* The other payloads: empty, without type or token or with empty ones, with
\* another token, URL verifications, and another type.
OtherPayloads ==
    {<<>>,
     [type |-> "event_callback"],
     [token |-> VITUBOT_SLACK_APP_TOKEN],
     [type |-> "", token |-> VITUBOT_SLACK_APP_TOKEN],
     [type |-> "event_callback", token |-> ""],
     [type |-> "event_callback", token |-> "other-token", event |-> [text |-> TextHelp]],
     [type |-> "event_callback", token |-> NonAsciiToken, event |-> [text |-> TextHelp]],
     [type |-> "url_verification", token |-> "other-token", challenge |-> "challenge-1"],
     [type |-> "url_verification", token |-> VITUBOT_SLACK_APP_TOKEN,
      challenge |-> "challenge-1"],
     [type |-> "url_verification", token |-> VITUBOT_SLACK_APP_TOKEN],
     [type |-> "app_rate_limited", token |-> VITUBOT_SLACK_APP_TOKEN]}

Payloads == AuthorizedCallbacks \cup OtherPayloads

Received(payload) ==
    [payload |-> payload, pc |-> "received", response |-> None,
     handlers |-> <<>>, log |-> <<>>, raised |-> "None"]

InitServer ==
    /\ pc = "serving"
    /\ requests \in [RequestIds -> {Received(payload) : payload \in Payloads}]
    /\ class_attrs = ClassAttributes
    /\ arguments = None
    /\ lookups = <<>>
    /\ gathered = None
    /\ posted = <<>>
    /\ ping_sensor = None
    /\ probe_health_sensor = None
    /\ primary_interface_sensor = None
    /\ site_pi_lte_dongle_sensor = None
    /\ all_probe_ping_sensors = None
    /\ probe_device = None
    /\ network_devices = None
    /\ clover_devices = None
    /\ raised = "None"

server_frame ==
    <<pc, class_attrs, arguments, lookups, gathered, posted, raised,
      ping_sensor, probe_health_sensor, primary_interface_sensor,
      site_pi_lte_dongle_sensor, all_probe_ping_sensors,
      probe_device, network_devices, clover_devices>>

\* The endpoint handles a request and its response is sent.
Endpoint(r) ==
    /\ requests[r].pc = "received"
    /\ requests' = [requests EXCEPT
                       ![r].response = vitubot(requests[r].payload),
                       ![r].pc = IF vitubot(requests[r].payload).scheduled
                                 THEN "scheduled" ELSE "closed",
                       ![r].log = <<"response">>]
    /\ UNCHANGED server_frame

\* The background task of a request runs up to its first await or its end.
TaskStarts(r) ==
    /\ requests[r].pc = "scheduled"
    /\ \E found \in BOOLEAN :
         LET ran == execute_vitubot_task(requests[r].payload, found)
         IN  requests' = [requests EXCEPT
                             ![r].pc = ran.pc,
                             ![r].handlers = ran.handlers,
                             ![r].log = @ \o ran.events,
                             ![r].raised = ran.raised]
    /\ UNCHANGED server_frame

\* The gather of a status command is settled and its execute runs to its end:
\* it posts the report or one error, or format_output raises.
StatusJoins(r) ==
    /\ requests[r].pc = "awaiting"
    /\ \E outcome \in {"report", "error", "AttributeError"} :
         requests' = [requests EXCEPT
                         ![r].pc = "finished",
                         ![r].log = IF outcome = "AttributeError" THEN @ ELSE Append(@, "post"),
                         ![r].raised = IF outcome = "AttributeError" THEN outcome ELSE "None"]
    /\ UNCHANGED server_frame

NextServer ==
    \/ \E r \in RequestIds : Endpoint(r)
    \/ \E r \in RequestIds : TaskStarts(r)
    \/ \E r \in RequestIds : StatusJoins(r)

SpecServer == InitServer /\ [][NextServer]_vars

\* The payloads for which C17 allows a task.
AuthorizedCallback(payload) ==
    /\ DOMAIN payload # {}
    /\ ~Falsy(payload, "type")
    /\ ~Falsy(payload, "token")
    /\ payload.token = VITUBOT_SLACK_APP_TOKEN
    /\ payload.type = "event_callback"

\* C17: the endpoint schedules a command task only for a non-empty payload
\* with non-empty type and token, the configured token, and type
\* event_callback. In every other case no command runs and no message is
\* posted: a missing type or token gives 400, a token mismatch 401 (before
\* the challenge is echoed), url_verification returns the challenge, and any
\* other type gives 400.
EndpointSchedulesAuthorizedCallbacks ==
    \A r \in DOMAIN requests :
        requests[r].pc # "received" =>
            LET payload == requests[r].payload
                response == requests[r].response
            IN  /\ response.scheduled <=> AuthorizedCallback(payload)
                /\ ~response.scheduled =>
                       /\ requests[r].handlers = <<>>
                       /\ requests[r].log = <<"response">>
                       /\ (Falsy(payload, "type") \/ Falsy(payload, "token")) =>
                              response.status = 400
                       /\ (~Falsy(payload, "type") /\ ~Falsy(payload, "token")) =>
                              IF payload.token # VITUBOT_SLACK_APP_TOKEN
                              THEN response.status = 401
                              ELSE IF payload.type # "url_verification"
                                   THEN response.status = 400
                              ELSE "challenge" \in DOMAIN payload =>
                                       /\ response.status = 200
                                       /\ response.body = payload.challenge

\* The handler C18 names for a text.
NamedHandler(text) ==
    IF Len(Split(text)) < 2 THEN "help"
    ELSE IF Lower(Split(text)[2]) = CommandClovers THEN "clovers"
    ELSE IF Lower(Split(text)[2]) = CommandStatus THEN "status"
    ELSE IF Lower(Split(text)[2]) = CommandWifi THEN "wifi"
    ELSE "help"

\* C18: for every event callback text the dispatcher runs exactly one
\* handler: that of the second token, compared case-insensitively, and help
\* when there is no second token or it is no known command.
DispatchRunsNamedHandler ==
    \A r \in DOMAIN requests :
        (/\ requests[r].pc \in {"awaiting", "finished"}
         /\ "event" \in DOMAIN requests[r].payload) =>
            requests[r].handlers = <<NamedHandler(requests[r].payload.event.text)>>

\* C19: for every authorized event callback the response is sent before the
\* task runs, and the task posts the acknowledgement before it dispatches,
\* issues a lookup or posts a result or an error; this holds for each of the
\* requests in flight together.
AckBeforeCommand ==
    \A r \in DOMAIN requests :
        LET log == requests[r].log
        IN  /\ log # <<>> => log[1] = "response"
            /\ \A i \in 1..Len(log) :
                   log[i] \in {"dispatch", "lookup", "post"} =>
                       \E j \in 1..(i - 1) : log[j] = "ack"
            /\ requests[r].pc \in {"awaiting", "finished"} =>
                   /\ Len(log) >= 2
                   /\ log[2] = "ack"

\* Two status commands are in flight together; the second has posted its
\* result while the first still awaits its lookups.
AckBeforeCommandWitness ==
    /\ DOMAIN requests = RequestIds
    /\ requests[1].pc = "awaiting"
    /\ requests[1].log = <<"response", "ack", "dispatch",
                           "lookup", "lookup", "lookup", "lookup">>
    /\ requests[2].pc = "finished"
    /\ requests[2].handlers = <<"status">>
    /\ requests[2].log = <<"response", "ack", "dispatch",
                           "lookup", "lookup", "lookup", "lookup", "post">>

\* ---------------------------------------------------------------------------
\* The network group's counts and roles (NetworkGroupStatus.__init__), on the
\* sweeps of SpecNetwork: up to MaxNetworkSensors sensors whose names cycle
\* through the six roles, so that from the seventh sensor on a role has a
\* second sensor.
\* ---------------------------------------------------------------------------

\* The attributes of the six device roles.
NetworkRoles == {"meraki_device", "router", "pdu", "vitupay_com", "pi_device", "clover_com"}

\* C21: the network group is Healthy only if each of the six roles holds a
\* sensor with code 3 and the LTE dongle sensor is present with code 3, also
\* for sweeps with several sensors of the same role.
NetworkHealthyNeedsAllRoles ==
    (pc = "done" /\ network_devices.overall_status = "HEALTHY") =>
        /\ \A role \in NetworkRoles :
               /\ network_devices[role] # None
               /\ network_devices[role].status_int = 3
        /\ site_pi_lte_dongle_sensor # None
        /\ site_pi_lte_dongle_sensor.status_int = 3

\* C22: after the constructor the four counts sum to at most 7, and so the
\* network group's status is never Unknown.
NetworkCountsAtMostSeven ==
    pc = "done" =>
        /\ NetworkCounted(network_devices) <= 7
        /\ network_devices.overall_status # "UNKNOWN"

\* The number of sensors of the sweep that the loop counts (network group,
\* a name of one of the six roles) with a code in a set.
RoleSensorCount(codes) ==
    Cardinality({i \in 1..Len(all_probe_ping_sensors) :
                    /\ In(NETWORK_DEVICES, all_probe_ping_sensors[i].device_group)
                    /\ NetworkRole(Lower(all_probe_ping_sensors[i].device_name)) # "none"
                    /\ all_probe_ping_sensors[i].status_int \in codes})

\* C23: the LTE dongle adds one to up_devices when it is present with code 3
\* and adds nothing otherwise: absent, or with a warning, paused or down code,
\* it leaves the four counts at what the sweep's sensors alone give.
DongleCountsOnlyWhenUp ==
    pc = "done" =>
        LET dongle_up == IF /\ site_pi_lte_dongle_sensor # None
                            /\ site_pi_lte_dongle_sensor.status_int = 3
                         THEN 1 ELSE 0
        IN /\ network_devices.up_devices = RoleSensorCount({3}) + dongle_up
           /\ network_devices.warning_devices = RoleSensorCount({2, 4, 6, 10, 11, 14})
           /\ network_devices.paused_devices = RoleSensorCount({7, 8, 9, 12})
           /\ network_devices.down_devices = RoleSensorCount({0, 1, 5, 13})
           /\ network_devices.pi_lte_dongle = site_pi_lte_dongle_sensor

\* A dongle that is down next to six devices that are up: nothing is counted
\* down and the group is Degraded.
DongleCountsOnlyWhenUpWitness ==
    /\ pc = "done"
    /\ site_pi_lte_dongle_sensor # None
    /\ site_pi_lte_dongle_sensor.status_int = 5
    /\ network_devices.up_devices = 6
    /\ network_devices.down_devices = 0
    /\ network_devices.overall_status = "DEGRADED"

\* ---------------------------------------------------------------------------
\* Specification SpecRoles: one iteration of the loop of
\* NetworkGroupStatus.__init__ (status.py 202-238) on one sensor, after the
\* dongle and the sensors before it in the sweep have been taken.
\* ---------------------------------------------------------------------------

\* A name with the substrings of two roles, the later role's first.
NamePduRouter == <<"P","D","U"," ","R","o","u","t","e","r">>

\* The sensor of the iteration: every name with every group and every code.
IteratedSensors ==
    {Sensor(n, g, c) :
        n \in {NameMeraki, NameRouter, NamePdu, NameVitupay, NamePi, NameCloverCom,
               NameSwitch, NameClover, NamePduRouter},
        g \in {GroupNetwork, GroupClover, GroupStore},
        c \in StatusCodes}

\* The sensors of the sweep before it: none, one of a role, one of each role.
IteratedBefore ==
    {<<>>,
     <<Sensor(NameVitupay, GroupNetwork, 5)>>,
     SensorsByCount(GroupNetwork, RoleNames, 6, 0, 0, 0)}

InitRoles ==
    /\ pc = "iterate"
    /\ ping_sensor \in IteratedSensors
    /\ all_probe_ping_sensors \in IteratedBefore
    /\ site_pi_lte_dongle_sensor \in {None, Sensor(NamePi, GroupDongle, 3)}
    /\ network_devices =
           NetworkLoop(NetworkAddDongle(NetworkGroupStatus_defaults, site_pi_lte_dongle_sensor),
                       all_probe_ping_sensors)
    /\ probe_health_sensor = None
    /\ primary_interface_sensor = None
    /\ probe_device = None
    /\ clover_devices = None
    /\ raised = "None"
    /\ NoCommand

RoleIterate ==
    /\ pc = "iterate"
    /\ network_devices' = NetworkIterate(network_devices, ping_sensor)
    /\ all_probe_ping_sensors' = Append(all_probe_ping_sensors, ping_sensor)
    /\ pc' = "done"
    /\ UNCHANGED <<ping_sensor, probe_health_sensor, primary_interface_sensor,
                   site_pi_lte_dongle_sensor, probe_device, clover_devices, raised>>
    /\ UNCHANGED command_vars

NextRoles == RoleIterate

SpecRoles == InitRoles /\ [][NextRoles]_vars

\* The substrings of C24 in their order, each with the role it stands for.
RoleSubstrings ==
    <<[substring |-> <<"m","e","r","a","k","i">>, role |-> "meraki_device"],
      [substring |-> <<"r","o","u","t","e","r">>, role |-> "router"],
      [substring |-> <<"p","d","u">>, role |-> "pdu"],
      [substring |-> <<"v","i","t","u","p","a","y">>, role |-> "vitupay_com"],
      [substring |-> <<"p","i">>, role |-> "pi_device"],
      [substring |-> <<"d",".","c","l","o","v","e","r",".","c","o","m">>, role |-> "clover_com"]>>

NetworkCounters == {"up_devices", "warning_devices", "paused_devices", "down_devices"}

\* C24: a sensor whose group contains "Network Devices" is assigned to
\* exactly one role, that of the first of meraki, router, pdu, vitupay, pi,
\* d.clover.com contained in its lower-cased device name (a name with both
\* "vitupay" and "pi" is the vitupay role), and adds one to exactly one
\* counter; a sensor whose name has none of them, and a sensor of another
\* group, changes no counter and no role.
RoleByFirstSubstring ==
    [][pc = "iterate" =>
          LET lower == Lower(ping_sensor.device_name)
              found == {i \in 1..Len(RoleSubstrings) : In(RoleSubstrings[i].substring, lower)}
          IN IF In(NETWORK_DEVICES, ping_sensor.device_group) /\ found # {}
             THEN LET first == CHOOSE i \in found : \A j \in found : i <= j
                      role == RoleSubstrings[first].role
                  IN /\ network_devices'[role] = ping_sensor
                     /\ \A other \in NetworkRoles \ {role} :
                            network_devices'[other] = network_devices[other]
                     /\ \E counter \in NetworkCounters :
                            /\ network_devices'[counter] = network_devices[counter] + 1
                            /\ \A c \in NetworkCounters \ {counter} :
                                   network_devices'[c] = network_devices[c]
                     /\ (In(<<"v","i","t","u","p","a","y">>, lower) /\ In(<<"p","i">>, lower)
                         /\ first > 3) =>
                            /\ network_devices'.vitupay_com = ping_sensor
                            /\ network_devices'.pi_device = network_devices.pi_device
             ELSE /\ \A r \in NetworkRoles : network_devices'[r] = network_devices[r]
                  /\ \A c \in NetworkCounters : network_devices'[c] = network_devices[c]
                  /\ network_devices'.pi_lte_dongle = network_devices.pi_lte_dongle
    ]_vars

\* The sensor api.ca.vitupay.com, whose lower-cased name contains "pi" too,
\* has taken the vitupay role as the first sensor of the sweep, and is
\* counted as paused.
RoleByFirstSubstringWitness ==
    /\ pc = "done"
    /\ ping_sensor.device_name = NameVitupay
    /\ ping_sensor.status_int = 8
    /\ all_probe_ping_sensors = <<ping_sensor>>
    /\ network_devices.vitupay_com = ping_sensor
    /\ network_devices.pi_device = None
    /\ network_devices.paused_devices = 1

\* ---------------------------------------------------------------------------
\* The Clover group's counts and its last branch (CloverGroupStatus.__init__),
\* on the sweeps of SpecClover.
\* ---------------------------------------------------------------------------

\* The positions of the sweep's sensors whose group contains "Clover Devices".
CloverPositions ==
    {i \in 1..Len(all_probe_ping_sensors) :
        In(CLOVER_DEVICES, all_probe_ping_sensors[i].device_group)}

\* C25: after the constructor total_clovers is the number of sensors of the
\* sweep whose group contains "Clover Devices", and the up, warning, paused
\* and down counts sum to it; the sensors of other groups change no count.
CloverTotalIsSum ==
    pc = "done" =>
        /\ clover_devices.total_clovers = Cardinality(CloverPositions)
        /\ CloverCounted(clover_devices) = clover_devices.total_clovers
        /\ clover_devices.up_clovers =
               Cardinality({i \in CloverPositions : all_probe_ping_sensors[i].status_int = 3})

\* A sweep of a network sensor that is up and three Clovers, one of them up:
\* the network sensor is in no count.
CloverTotalIsSumWitness ==
    /\ pc = "done"
    /\ Len(all_probe_ping_sensors) = 4
    /\ all_probe_ping_sensors[1] = Sensor(NameMeraki, GroupNetwork, 3)
    /\ clover_devices.total_clovers = 3
    /\ clover_devices.up_clovers = 1
    /\ clover_devices.warning_clovers = 1
    /\ clover_devices.paused_clovers = 1

\* C27: the Clover group's status is Unknown if and only if total_clovers is
\* 0; with at least one Clover in the sweep it is Healthy, Degraded, Paused
\* or Critical, the last else of the if-chain is never taken.
CloverUnknownIffNone ==
    pc = "done" =>
        /\ raised = "None"
        /\ clover_devices.overall_status = "UNKNOWN" <=> clover_devices.total_clovers = 0
        /\ clover_devices.total_clovers > 0 =>
               clover_devices.overall_status \in {"HEALTHY", "DEGRADED", "PAUSED", "CRITICAL"}

\* Three Clovers of five up and two down: under 80%, no majority of warnings
\* or of paused Clovers, taken by the last elif.
CloverUnknownIffNoneWitness ==
    /\ pc = "done"
    /\ clover_devices.total_clovers = 5
    /\ clover_devices.up_clovers = 3
    /\ clover_devices.down_clovers = 2
    /\ clover_devices.overall_status = "CRITICAL"

\* ---------------------------------------------------------------------------
\* The status command (Spec): the dongle lookup that finds no sensor, the
\* site status of the report, and the messages for failed requests.
\* ---------------------------------------------------------------------------

\* The outcome of get_pi_lte_dongle that C26 names.
DongleNotFound ==
    Raised(Error("ValueError", "Pi LTE dongle sensor not found at site"))

\* C26: when PRTG lists no dongle sensor for the site the dongle lookup fails
\* with its not-found ValueError, and the command posts one error message and
\* no report; so the status command never constructs the network group with
\* an absent dongle.
DongleNotFoundFails ==
    /\ Lookup("get_pi_lte_dongle", Json(<<>>)) = DongleNotFound
    /\ (DOMAIN lookups = LookupNames /\ lookups["get_pi_lte_dongle"] = DongleNotFound) =>
           /\ \A i \in 1..Len(posted) : posted[i].kind # "report"
           /\ network_devices = None
           /\ pc = "done" => /\ Len(FinalMessages) = 1
                             /\ FinalMessages[1].kind = "error"
    /\ network_devices # None =>
           /\ site_pi_lte_dongle_sensor # None
           /\ network_devices.pi_lte_dongle # None

\* The other three lookups have returned, the dongle lookup has found no
\* sensor, and the execution has ended with that lookup's message.
DongleNotFoundFailsWitness ==
    /\ pc = "done"
    /\ DOMAIN lookups = LookupNames
    /\ lookups["get_pi_lte_dongle"] = DongleNotFound
    /\ \A n \in LookupNames \ {"get_pi_lte_dongle"} : lookups[n].state = "returned"
    /\ FinalMessages = <<ErrorMessage("Pi LTE dongle sensor not found at site")>>
    /\ network_devices = None

\* The report the execution has posted, if it has.
ReportPosted == pc = "done" /\ Len(FinalMessages) = 1 /\ FinalMessages[1].kind = "report"

\* C28: the site status of the posted report is Healthy only if the probe
\* health code is 3, the primary interface code is 3 or the site is LTE-only,
\* neither the network group nor the Clover group is Critical or Degraded,
\* and the two groups are not both Paused.
SiteHealthyOnlyIf ==
    (ReportPosted /\ FinalMessages[1].probe_status = "HEALTHY") =>
        /\ lookups["get_probe_health"].result.status_int = 3
        /\ \/ lookups["get_primary_interface"].result.status_int = 3
           \/ In(LTE_ONLY, lookups["get_probe_health"].result.device_group)
        /\ network_devices.overall_status \notin {"CRITICAL", "DEGRADED"}
        /\ clover_devices.overall_status \notin {"CRITICAL", "DEGRADED"}
        /\ ~(network_devices.overall_status = "PAUSED" /\ clover_devices.overall_status = "PAUSED")
        /\ FinalMessages[1].network_status = network_devices.overall_status

\* An LTE-only site whose primary interface is down, with the network group
\* Paused and the Clover group Healthy, is reported Healthy.
SiteHealthyOnlyIfWitness ==
    /\ ReportPosted
    /\ FinalMessages[1].probe_status = "HEALTHY"
    /\ lookups["get_primary_interface"].result.status_int = 13
    /\ In(LTE_ONLY, lookups["get_probe_health"].result.device_group)
    /\ network_devices.overall_status = "PAUSED"
    /\ clover_devices.overall_status = "HEALTHY"

\* The message C30 gives for each kind of failed request.
SpecificMessage(class) ==
    CASE class = "ConnectionError" -> "A connection could not be established to PRTG"
      [] class = "HTTPError"       -> "An HTTP error occurred"
      [] class = "Timeout"         -> "The request to PRTG took too long"

\* C30: when a lookup of the status command fails with a connection error,
\* an HTTP error or a timeout, the one error message posted is the one of
\* that kind of failure, not "An unexpected request error occurred".
RequestErrorSpecificMessage ==
    (pc = "done" /\ gathered # None
       /\ gathered.error.class \in {"ConnectionError", "HTTPError", "Timeout"}) =>
        FinalMessages = <<ErrorMessage(SpecificMessage(gathered.error.class))>>

\* ---------------------------------------------------------------------------
\* Specification SpecRenormalize: normalize_overall_site_status called on the
\* three objects the constructors built, and called once more on the same
\* objects.  The function assigns to probe_device.overall_status in place, so
\* the second call reads what the first one left.
\* ---------------------------------------------------------------------------

NormalizeAgain ==
    /\ pc = "done"
    /\ probe_device' = normalize_overall_site_status(probe_device, network_devices, clover_devices)
    /\ pc' = "again"
    /\ UNCHANGED <<ping_sensor, probe_health_sensor, primary_interface_sensor,
                   site_pi_lte_dongle_sensor, all_probe_ping_sensors,
                   network_devices, clover_devices, raised>>
    /\ UNCHANGED command_vars

NextRenormalize == Normalize \/ NormalizeAgain

SpecRenormalize == InitNormalize /\ [][NextRenormalize]_vars

\* C29: normalize_overall_site_status is idempotent: the second call leaves
\* the probe's status equal to the status after the first call, for every
\* probe status and every pair of group statuses.
NormalizeIdempotent ==
    [][pc = "done" => probe_device'.overall_status = probe_device.overall_status]_vars

\* The statuses of the two groups.
GroupStatuses == {network_devices.overall_status, clover_devices.overall_status}

\* C29 as the function is: the second call leaves the probe's status equal
\* to the status after the first call, except after a first call that made a
\* Healthy probe Degraded (a group Degraded, none Critical): the second call
\* then takes the branch for a Degraded probe and makes it Critical.
NormalizeIdempotentButDegraded ==
    [][pc = "done" =>
          IF probe_device.overall_status = "DEGRADED" /\ "DEGRADED" \in GroupStatuses
          THEN /\ probe_device'.overall_status = "CRITICAL"
               /\ "CRITICAL" \notin GroupStatuses
               /\ ProbeDeviceStatus(probe_health_sensor,
                                    primary_interface_sensor).overall_status = "HEALTHY"
          ELSE probe_device'.overall_status = probe_device.overall_status
    ]_vars

\* A probe built Healthy beside a Degraded network group and a Healthy Clover
\* group, Critical after the second call.
NormalizeIdempotentButDegradedWitness ==
    /\ pc = "again"
    /\ ProbeDeviceStatus(probe_health_sensor, primary_interface_sensor).overall_status = "HEALTHY"
    /\ network_devices.overall_status = "DEGRADED"
    /\ clover_devices.overall_status = "HEALTHY"
    /\ probe_device.overall_status = "CRITICAL"

====
